---- MODULE Spec2Model ----
(***************************************************************************)
(* A model of the build engine: the target set (build2/target.cxx), the    *)
(* recipe slot of a target (target::recipe), the built-in rules            *)
(* (build/rule.cxx) and the executor and matcher they are written against. *)
(* Each part has its own specification over its own variables; the         *)
(* variables of the other parts stay at their initial values.              *)
(***************************************************************************)
EXTENDS Integers, Sequences, FiniteSets, TLC

VARIABLES
  map_,      \* target_set::map_: the interned targets, in order of creation
  last,      \* the most recent target_set call and what it returned
  first,     \* key -> what the first insert with that key returned (obj 0: none yet)
  ncalls     \* number of target_set calls made so far

tsVars == <<map_, last, first, ncalls>>

VARIABLES
  tgt,       \* one target: its action, recipe_, raw_state and dependents
  rlast      \* the most recent target::recipe call: what became of it

rcVars == <<tgt, rlast>>

VARIABLES
  op,        \* the operation being performed: "update" or "clean"
  kind,      \* target -> "fsdir" or "path" (a file)
  prereqs,   \* target -> its prerequisite_targets
  exists,    \* target -> whether its directory or file is on disk
  junk,      \* fsdir target -> whether its directory holds foreign entries
  mtime,     \* path target -> the modification time of its file
  tg,        \* target -> its action, recipe_, raw_state and dependents
  busy,      \* target -> whether its recipe is executing
  runs,      \* target -> how often its recipe was invoked, per pass
  ppd,       \* target -> how often its recipe returned postponed
  acted,     \* target -> whether its recipe has carried out its own action
  obs,       \* target -> the (pass, state) pairs execute returned to callers
  stack,     \* worker -> the recipes it is in, innermost last
  pass,      \* 1: first pass, 2: second pass (postponed targets), 3: done
  todo,      \* the targets the driver has still to execute in this pass
  psp,       \* the targets recorded as postponed
  failedOp   \* whether the operation has failed

exVars == <<op, kind, prereqs, exists, junk, mtime, tg, busy, runs, ppd, acted,
            obs, stack, pass, todo, psp, failedOp>>

VARIABLES
  disk,      \* the paths of the files on disk
  ptgt,      \* the path target being matched
  rules,     \* the rules registered besides path_rule, in lookup order
  hint,      \* the hint passed to match
  act,       \* the action being matched
  asked,     \* what the rules looked at so far answered: yes, no or skip
  mres       \* the outcome of match

mtVars == <<disk, ptgt, rules, hint, act, asked, mres>>

VARIABLES
  plan,      \* the operations still to perform after the current one
  hist,      \* what the operations performed so far did
  roots,     \* the targets the operations are performed on
  exists0    \* what was on disk when the first operation started

opVars == <<plan, hist, roots, exists0>>

VARIABLES
  scopes,    \* out directory -> the scope inserted for it
  gconfig,   \* the value of config.<project> in the global scope
  srcroot,   \* out directory -> what its src-root.build assigns to src_root
  insrc,     \* whether the imported project is built in its source directory
  ndebug,    \* whether the build compiles assert () away
  nboots,    \* how many calls were made
  blast      \* the last call: what it was, its steps and how it ended

btVars == <<scopes, gconfig, srcroot, insrc, ndebug, nboots, blast>>

VARIABLES
  wfs,       \* the paths that exist in the filesystem
  wdata,     \* output file -> its content
  cleanups,  \* scope::cleanups: the paths registered, in order
  wphase,    \* the test scope: "out", "in" (entered), "left", "failed"
  removed,   \* the paths leave removed, in order
  wlast,     \* the most recent call of the runner and how it ended
  ncmds      \* the commands run in the scope

rnVars == <<wfs, wdata, cleanups, wphase, removed, wlast, ncmds>>

\* A command whose stdin is a here-string or here-document, and its child.
VARIABLES
  rpc,       \* where run is: "write", "wait", "catch", "done" or "failed"
  cpc,       \* the child: "running", "closed" (its stdin) or "exited"
  pipe,      \* the bytes in the pipe to the child's stdin
  towrite,   \* the bytes of the content run has not written yet
  nread,     \* the bytes the child has read
  nwant,     \* the bytes the child reads at most
  wclosed    \* run has closed the pipe

ppVars == <<rpc, cpc, pipe, towrite, nread, nwant, wclosed>>

\* A target whose variable is looked up.
VARIABLES
  tvars,     \* target::vars: the value of the variable in the target, "" if none
  hasgroup,  \* target::group is not null
  gvars,     \* group->vars: the value of the variable in the group, "" if none
  svars,     \* the value in the base scope of the target, in its parent, ...,
             \* and in the global scope, "" if none
  flast      \* the most recent call of find_original and what it returned

fdVars == <<tvars, hasgroup, gvars, svars, flast>>

\* A dir{} or fsdir{} target a rule is applied to.
VARIABLES
  drule,     \* the rule: "dir" or "fsdir"
  daction,   \* the action the target is matched for
  ddir,      \* target::dir of the target
  dpre,      \* the directories of its prerequisites, in order
  dlast      \* the most recent call of match and apply and what became of it

drVars == <<drule, daction, ddir, dpre, dlast>>

\* A bash script or module made from a .in file by bash::in_rule.
VARIABLES
  bkind,       \* the type of the target: "exe" or "bash"
  boff,        \* the components of target::dir below the root's out_path
  bpts,        \* target::prerequisite_targets of the action
  for_install, \* match_data::for_install: "none", "true" or "false"
  bstate,      \* "matched", "updated", or "failed" once a rule has failed
  bcalls,      \* the calls made so far
  blog         \* the most recent call and what became of it

bsVars == <<bkind, boff, bpts, for_install, bstate, bcalls, blog>>

\* Threads that resolve the import of one installed bash module.
VARIABLES
  sfs,       \* the mtime of the module in each directory of PATH, 0 if none
  saction,   \* the action the importing targets are matched for
  spc,       \* where each thread is in in_rule::search
  sfound,    \* the directory of PATH each thread has found the module in
  sowns,     \* rp.second.owns_lock () of each thread
  slock,     \* the thread that holds the lock of the target set, 0 if none
  stargets,  \* the targets of the found modules, one per directory of PATH
  sret       \* the target each thread has returned, 0 for nullptr

srVars == <<sfs, saction, spc, sfound, sowns, slock, stargets, sret>>

\* The calls of create_bootstrap_outer, one for each enclosing project.
VARIABLES
  otree,     \* the amalgamation each project's bootstrap.build sets, Null
             \* where it sets none
  omis,      \* the out directories whose src-root.build names a src_root
             \* that is not the amalgamated one
  ostart,    \* the root scope of the first call
  ocur,      \* the root scope of the current call
  odepth,    \* the calls that have not returned
  ostate     \* "running", "returned" or "failed"

obVars == <<otree, omis, ostart, ocur, odepth, ostate>>

\* A call of config::create_project.
VARIABLES
  cargs,     \* the arguments: amal, bmod, rpre, rmod, rpos, config, buildfile
  cdir,      \* the directory d: "absent", "empty" or "full"
  cfiles,    \* the lines of the files written, Null for a file not written
  cerr       \* "none" before the call, then "" or what it failed with

cpVars == <<cargs, cdir, cfiles, cerr>>

vars == <<tsVars, rcVars, exVars, mtVars, opVars, btVars, rnVars, ppVars, fdVars, drVars, bsVars, srVars, obVars, cpVars>>

\* What the actions of each part leave alone.
tsOthers == <<rcVars, exVars, mtVars, opVars, btVars, rnVars, ppVars, fdVars, drVars, bsVars, srVars, obVars, cpVars>>

rcOthers == <<tsVars, exVars, mtVars, opVars, btVars, rnVars, ppVars, fdVars, drVars, bsVars, srVars, obVars, cpVars>>

exOthers == <<tsVars, rcVars, mtVars, opVars, btVars, rnVars, ppVars, fdVars, drVars, bsVars, srVars, obVars, cpVars>>

mtOthers == <<tsVars, rcVars, exVars, opVars, btVars, rnVars, ppVars, fdVars, drVars, bsVars, srVars, obVars, cpVars>>

opOthers == <<tsVars, rcVars, mtVars, btVars, rnVars, ppVars, fdVars, drVars, bsVars, srVars, obVars, cpVars>>

btOthers == <<tsVars, rcVars, exVars, mtVars, opVars, rnVars, ppVars, fdVars, drVars, bsVars, srVars, obVars, cpVars>>

rnOthers == <<tsVars, rcVars, exVars, mtVars, opVars, btVars, ppVars, fdVars, drVars, bsVars, srVars, obVars, cpVars>>

ppOthers == <<tsVars, rcVars, exVars, mtVars, opVars, btVars, rnVars, fdVars, drVars, bsVars, srVars, obVars, cpVars>>

fdOthers == <<tsVars, rcVars, exVars, mtVars, opVars, btVars, rnVars, ppVars, drVars, bsVars, srVars, obVars, cpVars>>

bsOthers == <<tsVars, rcVars, exVars, mtVars, opVars, btVars, rnVars, ppVars, fdVars, drVars, srVars, obVars, cpVars>>

srOthers == <<tsVars, rcVars, exVars, mtVars, opVars, btVars, rnVars, ppVars, fdVars, drVars, bsVars, obVars, cpVars>>

obOthers == <<tsVars, rcVars, exVars, mtVars, opVars, btVars, rnVars, ppVars, fdVars, drVars, bsVars, srVars, cpVars>>

cpOthers == <<tsVars, rcVars, exVars, mtVars, opVars, btVars, rnVars, ppVars, fdVars, drVars, bsVars, srVars, obVars>>

drOthers == <<tsVars, rcVars, exVars, mtVars, opVars, btVars, rnVars, ppVars, fdVars, bsVars, srVars, obVars, cpVars>>

(***************************************************************************)
(* Bounds.                                                                 *)
(***************************************************************************)
MaxCalls == 3

MaxDependents == 2

NumTargets == 3

NumWorkers == 2

MaxTime == 2

NumRules == 2

MaxBoots == 2

\* The prerequisites of a dir{} or fsdir{} target.
MaxBashCalls == 4

NumThreads == 2

NumPath == 2

MaxOuterDepth == 4

MaxMods == 2

MaxPrereqs == 2

\* The scopes around a target, the global scope included.
MaxScopes == 3

\* The bytes of a here-string or here-document, and those the pipe to
\* the child's stdin holds.
MaxContent == 3

PipeCap == 2

\* Commands run in one test scope.
MaxCmds == 2

(***************************************************************************)
(* The target set.                                                         *)
(***************************************************************************)

\* An extension that is not specified (a null const string*).
Unspecified == "nullptr"

\* Extensions from the extension pool: "" is "no extension" (file{foo.}).
Exts == {"", "1"}

ExtArgs == Exts \cup {Unspecified}

\* Target types, one per factory: file (file_factory), man (man_factory)
\* and alias, which stands for the types built by target_factory (it stores
\* the extension as given).
TypeNames == {"file", "man", "alias"}

Dirs == {"a/"}

Outs == {""}

Names == {"foo", "bar"}

Keys == [type : TypeNames, dir : Dirs, out : Outs, name : Names, ext : ExtArgs]

NoCall == [op |-> "none", key |-> 0, obj |-> 0, inserted |-> FALSE,
           isfirst |-> FALSE, upgraded |-> FALSE]

\* file_factory: an unspecified extension becomes "" (file{foo} is file{foo.}).
file_factory(e) == IF e # Unspecified THEN e ELSE ""

\* man_factory: the extension (man section) must be specified.
man_factory_fails(e) == e = Unspecified

\* tt.factory (tt, dir, out, name, ext): the extension of the new target.
factory(tt, e) == IF tt = "file" THEN file_factory(e) ELSE e

factory_fails(tt, e) == tt = "man" /\ man_factory_fails(e)

\* Equivalence of a lookup key and the key of an interned target under the
\* map's ordering: type, dir, out and name are equal, and the extensions
\* are equal or one of them is unspecified. The key of an interned target
\* refers to the target's own fields, its current extension included.
key_equiv(k, t) ==
  /\ k.type = t.type /\ k.dir = t.dir /\ k.out = t.out /\ k.name = t.name
  /\ (k.ext = Unspecified \/ t.ext = Unspecified \/ k.ext = t.ext)

\* What map_.find (k) may return: the targets whose key is equivalent to k.
\* Where several are, the one returned depends on the order of the pooled
\* extension strings, which the model leaves open.
map_find(k) == {i \in DOMAIN map_ : key_equiv(k, map_[i])}

\* The extension that target_set::find leaves in target t for key k.
find_ext_mut(t, k) == k.ext

find_ext(t, k) == IF t.ext # k.ext /\ k.ext # Unspecified THEN k.ext ELSE t.ext

\* target_set::find (k): an iterator to a target (i) or end ().
TSFind(k) ==
  /\ UNCHANGED tsOthers
  /\ ncalls < MaxCalls
  /\ ncalls' = ncalls + 1
  /\ first' = first
  /\ \/ /\ map_find(k) = {}
        /\ map_' = map_
        /\ last' = [NoCall EXCEPT !.op = "find", !.key = k]
     \/ \E i \in map_find(k) :
          /\ map_' = [map_ EXCEPT ![i].ext = find_ext(map_[i], k)]
          /\ last' = [NoCall EXCEPT !.op = "find", !.key = k, !.obj = i,
                                    !.upgraded = (map_[i].ext = Unspecified
                                                  /\ k.ext # Unspecified)]

\* What the first insert call with key k returned (obj 0: no call yet).
FirstOf(k) == IF k \in DOMAIN first THEN first[k]
                                    ELSE [obj |-> 0, inserted |-> FALSE]

\* The first-call record after an insert call with key k returned r.
NoteFirst(k, r) == IF k \in DOMAIN first THEN first ELSE first @@ (k :> r)

\* The inserted flag target_set::insert returns, given whether find
\* returned end ().
insert_flag_mut(atend) == TRUE

insert_flag(atend) == atend

\* target_set::insert (tt, dir, out, name, ext): (target, inserted).
TSInsert(k) ==
  /\ UNCHANGED tsOthers
  /\ ncalls < MaxCalls
  /\ ncalls' = ncalls + 1
  /\ \/ \E i \in map_find(k) :
          /\ map_' = [map_ EXCEPT ![i].ext = find_ext(map_[i], k)]
          /\ first' = NoteFirst(k, [obj |-> i, inserted |-> insert_flag(FALSE)])
          /\ last' = [op |-> "insert", key |-> k, obj |-> i,
                      inserted |-> insert_flag(FALSE),
                      isfirst |-> (k \notin DOMAIN first),
                      upgraded |-> (map_[i].ext = Unspecified
                                    /\ k.ext # Unspecified)]
     \/ /\ map_find(k) = {}
        /\ ~factory_fails(k.type, k.ext)
        /\ map_' = Append(map_, [k EXCEPT !.ext = factory(k.type, k.ext)])
        /\ first' = NoteFirst(k, [obj |-> Len(map_) + 1,
                                  inserted |-> insert_flag(TRUE)])
        /\ last' = [op |-> "insert", key |-> k, obj |-> Len(map_) + 1,
                    inserted |-> insert_flag(TRUE),
                    isfirst |-> (k \notin DOMAIN first), upgraded |-> FALSE]
     \/ /\ map_find(k) = {}
        /\ factory_fails(k.type, k.ext)
        /\ UNCHANGED <<map_, first>>
        /\ last' = [NoCall EXCEPT !.op = "fail", !.key = k]

TSIdle ==
  /\ map_ = <<>>
  /\ last = NoCall
  /\ first = <<>>
  /\ ncalls = 0

TSNext ==
  \/ \E k \in Keys : TSFind(k)
  \/ \E k \in Keys : TSInsert(k)

(***************************************************************************)
(* target::recipe and the state of one target.                             *)
(***************************************************************************)

\* An action: the meta-operation, the outer and the inner operation.
Actions ==
  {[meta |-> m, outer |-> o.outer, inner |-> o.inner] :
     m \in {"perform", "configure"},
     o \in {[outer |-> "none", inner |-> "update"],
            [outer |-> "none", inner |-> "clean"],
            [outer |-> "none", inner |-> "test"],
            [outer |-> "test", inner |-> "update"],
            [outer |-> "install", inner |-> "update"]}}

\* The action of a target that has not been matched.
NoAction == [meta |-> "none", outer |-> "none", inner |-> "none"]

\* x > y: the recipe for x overrides the recipe for y. A different inner
\* operation always does; for the same inner operation the action without
\* an outer operation is the stronger one.
action_gt(x, y) ==
  \/ x.meta # y.meta \/ x.inner # y.inner
  \/ (x.outer # y.outer /\ y.outer # "none")

\* x == y: the inner operations are equal (the outer one is ignored).
action_eq(x, y) == x.meta = y.meta /\ x.inner = y.inner

\* The recipes a rule's apply returns.
Recipes == {"noop", "default", "group", "perform_update", "perform_clean"}

target_state == {"unknown", "unchanged", "postponed", "changed", "failed", "group"}

NewTarget == [action |-> NoAction, recipe_ |-> "empty",
              raw_state |-> "unknown", dependents |-> 0]

\* bool override (a == action && recipe_)
recipe_override(t, a) == action_eq(a, t.action) /\ t.recipe_ # "empty"

\* The assertions of target::recipe: a is stronger than the current action
\* or no recipe is installed, and only noop_recipe is overridden.
recipe_asserts_mut(t, a) == action_gt(a, t.action) \/ t.recipe_ = "empty"

recipe_asserts(t, a) ==
  /\ action_gt(a, t.action) \/ t.recipe_ = "empty"
  /\ recipe_override(t, a) => t.recipe_ = "noop"

\* The raw_state target::recipe leaves: unknown, or unchanged for noop.
recipe_state_mut(r) == "unknown"

recipe_state(r) == IF r = "noop" THEN "unchanged" ELSE "unknown"

\* Mutant of target_recipe: the dependents count is always reset.
target_recipe_mut(t, a, r) ==
  [action |-> a, recipe_ |-> r, raw_state |-> recipe_state(r), dependents |-> 0]

\* target::recipe (a, r), its assertions passed.
target_recipe(t, a, r) ==
  [action |-> a, recipe_ |-> r, raw_state |-> recipe_state(r),
   dependents |-> IF recipe_override(t, a) THEN t.dependents ELSE 0]

NoRecipeCall == [op |-> "none", override |-> FALSE, prev |-> NewTarget]

RCRecipe(a, r) ==
  /\ UNCHANGED rcOthers
  /\ \/ /\ recipe_asserts(tgt, a)
        /\ tgt' = target_recipe(tgt, a, r)
        /\ rlast' = [op |-> "recipe", override |-> recipe_override(tgt, a),
                     prev |-> tgt]
     \/ /\ ~recipe_asserts(tgt, a)
        /\ tgt' = tgt
        /\ rlast' = [op |-> "assert", override |-> recipe_override(tgt, a),
                     prev |-> tgt]

\* During match a dependent that resolves to the target increments its
\* dependents count.
RCMatchDependent ==
  /\ UNCHANGED rcOthers
  /\ tgt.recipe_ # "empty"
  /\ tgt.dependents < MaxDependents
  /\ tgt' = [tgt EXCEPT !.dependents = @ + 1]
  /\ rlast' = NoRecipeCall

\* The states a recipe returns.
recipe_results(r) ==
  CASE r = "group" -> {"group"}
    [] r = "perform_clean" -> {"unchanged", "changed", "postponed", "failed"}
    [] OTHER -> {"unchanged", "changed", "failed"}

\* Whether execute runs the recipe of a target in this state; second says
\* whether this is the second pass, which runs postponed targets again.
exec_runnable_mut(t, second) ==
  /\ t.recipe_ # "empty"
  /\ t.raw_state \in {"unknown", "postponed"}

exec_runnable(t, second) ==
  /\ t.recipe_ # "empty"
  /\ t.raw_state = "unknown" \/ (second /\ t.raw_state = "postponed")

\* The executor runs the recipe and stores the state it returned.
RCExecute(ts, second) ==
  /\ UNCHANGED rcOthers
  /\ exec_runnable(tgt, second)
  /\ ts \in recipe_results(tgt.recipe_)
  /\ tgt' = [tgt EXCEPT !.raw_state = ts]
  /\ rlast' = NoRecipeCall

RCIdle ==
  /\ tgt = NewTarget
  /\ rlast = NoRecipeCall

RCNext ==
  \/ \E a \in Actions, r \in Recipes : RCRecipe(a, r)
  \/ RCMatchDependent
  \/ \E ts \in target_state, second \in BOOLEAN : RCExecute(ts, second)

(***************************************************************************)
(* The rules' recipes (build/rule.cxx) and the executor that runs them.    *)
(***************************************************************************)

Targets == 1 .. NumTargets

Workers == 1 .. NumWorkers

Range(q) == {q[j] : j \in DOMAIN q}

\* The targets below t in ascending order, those in S only.
RECURSIVE AscSeq(_, _)
AscSeq(S, n) ==
  IF n = 0 THEN <<>>
  ELSE IF n \in S THEN Append(AscSeq(S, n - 1), n) ELSE AscSeq(S, n - 1)

\* The dependency graphs tried: a chain (a/b/c/ on a/b/ on a/), a fan
\* (every target on the first) and the full graph (every target on all
\* earlier ones).
Shapes == {"chain", "fan", "full"}

shape_prereqs(sh, t) ==
  CASE sh = "chain" -> IF t = 1 THEN <<>> ELSE <<t - 1>>
    [] sh = "fan" -> IF t = 1 THEN <<>> ELSE <<1>>
    [] OTHER -> AscSeq(1 .. (t - 1), t - 1)

\* The kinds tried: directories only, files only, files on a directory.
KindPatterns == {"fsdir", "path", "mixed"}

kind_of(kp, t) ==
  CASE kp = "fsdir" -> "fsdir"
    [] kp = "path" -> "path"
    [] OTHER -> IF t = 1 THEN "fsdir" ELSE "path"

\* The action of the operation.
op_action(o) == [meta |-> "perform", outer |-> "none", inner |-> o]

\* The action perform_update_id, as switch (a) and a == perform_update_id
\* see it: by the meta-operation and the inner operation.
is_perform_update(a) == a.meta = "perform" /\ a.inner = "update"

\* path_target::derive_path: the directory, the name and, unless the
\* extension is empty, a dot and the extension.
derive_path(t) ==
  <<t.dir, t.name>> \o (IF t.ext # "" THEN <<".", t.ext>> ELSE <<>>)

\* path_rule::match: for perform_update the path is derived if it is not
\* assigned yet and the rule claims the target if the file has an mtime;
\* for every other action it claims the target. The result is the claim and
\* the path the target is left with.
path_rule_match_mut(a, t, d) == [claims |-> TRUE, path |-> t.path]

path_rule_match(a, t, d) ==
  IF is_perform_update(a)
    THEN LET p == IF t.path = <<>> THEN derive_path(t) ELSE t.path
         IN [claims |-> p \in d, path |-> p]
    ELSE [claims |-> TRUE, path |-> t.path]

\* path_rule::apply: noop for clean; perform_update for perform_update;
\* otherwise default if the target has prerequisites and noop if not.
path_rule_apply(a, has) ==
  IF a.inner = "clean" THEN "noop"
  ELSE IF is_perform_update(a) THEN "perform_update"
  ELSE IF has THEN "default" ELSE "noop"

\* fsdir_rule::apply, switch (a): perform_update, perform_clean, and the
\* default recipe for every other action.
fsdir_rule_apply(a) ==
  IF is_perform_update(a) THEN "perform_update"
  ELSE IF a.meta = "perform" /\ a.inner = "clean" THEN "perform_clean"
  ELSE "default"

rule_apply(k, a, has) ==
  IF k = "path" THEN path_rule_apply(a, has) ELSE fsdir_rule_apply(a)

\* The steps of a recipe, in the order its code takes them. own is the
\* step in which the recipe carries out its own action (and, when it is the
\* last step, returns).
recipe_steps_mut(k, r) ==
  CASE r = "perform_clean" -> <<"prereqs_rev", "rmdir", "return_clean">>
    [] r = "perform_update" /\ k = "fsdir" -> <<"mkdir", "prereqs", "return_ts">>
    [] OTHER -> <<"mtime", "prereqs_chk", "return_unchanged">>

recipe_steps(k, r) ==
  CASE r = "perform_clean" -> <<"rmdir", "prereqs_rev", "return_clean">>
    [] r = "perform_update" /\ k = "fsdir" -> <<"prereqs", "mkdir", "return_ts">>
    [] OTHER -> <<"mtime", "prereqs_chk", "return_unchanged">>

PrereqSteps == {"prereqs", "prereqs_rev", "prereqs_chk"}

ReturnSteps == {"return_ts", "return_clean", "return_unchanged"}

StepOf(f) == recipe_steps(kind[f.t], tg[f.t].recipe_)[f.s]

\* The prerequisite the frame executes next: execute_prerequisites goes
\* through prerequisite_targets in order, reverse_execute_prerequisites in
\* reverse.
NextPrereq(f) ==
  IF StepOf(f) = "prereqs_rev"
    THEN prereqs[f.t][Len(prereqs[f.t]) - f.k]
    ELSE prereqs[f.t][f.k + 1]

\* A frame past a loop over the prerequisites that has none left.
norm(f) ==
  IF StepOf(f) \in PrereqSteps /\ f.k = Len(prereqs[f.t])
    THEN [f EXCEPT !.s = @ + 1] ELSE f

NewFrame(t) ==
  norm([t |-> t, s |-> 1, k |-> 0, ts |-> "unchanged", rs |-> "none", mt |-> 0])

Top(w) == stack[w][Len(stack[w])]

\* rmdir (t.dir): a directory holding foreign entries or the directory of
\* a dependent fsdir target is not empty.
dir_entries(t) ==
  \/ junk[t]
  \/ \E c \in Targets :
       kind[c] = "fsdir" /\ t \in Range(prereqs[c]) /\ exists[c]

rmdir_mut(t) == IF dir_entries(t) THEN "not_empty" ELSE "success"

rmdir(t) ==
  IF ~exists[t] THEN "not_exist"
  ELSE IF dir_entries(t) THEN "not_empty" ELSE "success"

mkdir_fails_mut(t) == TRUE

\* try_mkdir (t.dir) throws when a parent directory is missing.
mkdir_fails(t) ==
  \E p \in Range(prereqs[t]) : kind[p] = "fsdir" /\ ~exists[p]

\* path_rule::perform_update: the prerequisite is ahead of the target. mt
\* is the target's mtime, ts the state execute returned for p.
path_prereq_ahead_mut(mt, p, ts) ==
  IF kind[p] = "path" THEN mt <= mtime[p] ELSE ts = "changed"

path_prereq_ahead(mt, p, ts) ==
  IF kind[p] = "path" THEN mt < mtime[p] ELSE ts = "changed"

\* Whether the recipe in frame f fails on the state ts that execute
\* returned for its prerequisite p.
prereq_fails(f, p, ts) ==
  \/ ts = "failed"
  \/ StepOf(f) = "prereqs_chk" /\ path_prereq_ahead(f.mt, p, ts)

\* The frame after its prerequisite returned ts: the state is changed if
\* any prerequisite was.
after(f, ts) ==
  norm([f EXCEPT !.k = @ + 1,
                 !.ts = IF ts = "changed" THEN "changed" ELSE @])

\* execute (a, p) waits while the recipe of p is executing.
execute_waits_mut(p) == FALSE

execute_waits(p) == busy[p]

OnStack(w) == {stack[w][j].t : j \in DOMAIN stack[w]}

\* A recipe of worker w failed: the failure passes through every recipe
\* the worker is in, and their targets are failed.
Fail(w) ==
  /\ tg' = [t \in Targets |->
             IF t \in OnStack(w) THEN [tg[t] EXCEPT !.raw_state = "failed"]
                                 ELSE tg[t]]
  /\ busy' = [t \in Targets |-> busy[t] /\ t \notin OnStack(w)]
  /\ stack' = [stack EXCEPT ![w] = <<>>]
  /\ failedOp' = TRUE

\* The driver hands target t of its list to an idle worker (the workers
\* are alike: it is the first idle one), which executes it.
EXTake(w, t) ==
  /\ UNCHANGED exOthers
  /\ pass \in {1, 2} /\ stack[w] = <<>> /\ t \in todo /\ ~execute_waits(t)
  /\ \A v \in Workers : v < w => stack[v] # <<>>
  /\ todo' = todo \ {t}
  /\ UNCHANGED <<op, kind, prereqs, exists, junk, mtime, ppd, acted, pass, psp>>
  /\ IF exec_runnable(tg[t], pass = 2)
       THEN /\ busy' = [busy EXCEPT ![t] = TRUE]
            /\ runs' = [runs EXCEPT ![t][pass] = @ + 1]
            /\ stack' = [stack EXCEPT ![w] = <<NewFrame(t)>>]
            /\ UNCHANGED <<tg, obs, failedOp>>
       ELSE /\ obs' = [obs EXCEPT ![t] = @ \cup {<<pass, tg[t].raw_state>>}]
            /\ failedOp' = (failedOp \/ tg[t].raw_state = "failed")
            /\ UNCHANGED <<tg, busy, runs, stack>>

\* The recipe worker w is in executes its next prerequisite: it waits
\* while the prerequisite is executing, runs its recipe if that is still to
\* run, and otherwise gets the state the prerequisite ended in.
EXPrereq(w) ==
  /\ UNCHANGED exOthers
  /\ stack[w] # <<>> /\ StepOf(Top(w)) \in PrereqSteps
  /\ LET f == Top(w)
         p == NextPrereq(f)
         ts == tg[p].raw_state
     IN /\ ~execute_waits(p)
        /\ UNCHANGED <<op, kind, prereqs, exists, junk, mtime, ppd, acted,
                       pass, todo, psp>>
        /\ IF exec_runnable(tg[p], pass = 2)
             THEN /\ busy' = [busy EXCEPT ![p] = TRUE]
                  /\ runs' = [runs EXCEPT ![p][pass] = @ + 1]
                  /\ stack' = [stack EXCEPT ![w] = Append(@, NewFrame(p))]
                  /\ UNCHANGED <<tg, obs, failedOp>>
             ELSE /\ obs' = [obs EXCEPT ![p] = @ \cup {<<pass, ts>>}]
                  /\ runs' = runs
                  /\ IF prereq_fails(f, p, ts)
                       THEN Fail(w)
                       ELSE /\ stack' = [stack EXCEPT
                                           ![w][Len(stack[w])] = after(f, ts)]
                            /\ UNCHANGED <<tg, busy, failedOp>>

\* fsdir_rule::perform_clean removes the directory; path_rule::
\* perform_update reads the mtime of the target.
EXOwn(w) ==
  /\ UNCHANGED exOthers
  /\ stack[w] # <<>> /\ StepOf(Top(w)) \in {"rmdir", "mtime", "mkdir"}
  /\ LET f == Top(w)
         t == f.t
         st == StepOf(f)
         g == [f EXCEPT !.s = @ + 1]
     IN /\ UNCHANGED <<op, kind, prereqs, junk, mtime, runs, ppd, obs, pass,
                       todo, psp>>
        /\ CASE st = "rmdir" ->
                  /\ exists' = [exists EXCEPT ![t] = @ /\ rmdir(t) # "success"]
                  /\ acted' = [acted EXCEPT ![t] = TRUE]
                  /\ stack' = [stack EXCEPT ![w][Len(stack[w])] =
                                 norm([g EXCEPT !.rs = rmdir(t)])]
                  /\ UNCHANGED <<tg, busy, failedOp>>
             [] st = "mtime" ->
                  /\ stack' = [stack EXCEPT ![w][Len(stack[w])] =
                                 norm([g EXCEPT !.mt = mtime[t]])]
                  /\ UNCHANGED <<exists, acted, tg, busy, failedOp>>
             [] OTHER ->
                  /\ acted' = [acted EXCEPT ![t] = TRUE]
                  /\ IF exists[t]
                       THEN /\ stack' = [stack EXCEPT ![w][Len(stack[w])] =
                                           norm(g)]
                            /\ UNCHANGED <<exists, tg, busy, failedOp>>
                       ELSE IF mkdir_fails(t)
                         THEN Fail(w) /\ exists' = exists
                         ELSE /\ exists' = [exists EXCEPT ![t] = TRUE]
                              /\ stack' = [stack EXCEPT ![w][Len(stack[w])] =
                                             norm([g EXCEPT !.ts = "changed"])]
                              /\ UNCHANGED <<tg, busy, failedOp>>

\* Mutant of return_state: perform_clean returns the state of the
\* prerequisites for a directory that is not empty too.
return_state_mut(f) ==
  CASE StepOf(f) = "return_clean" ->
         IF f.rs = "success" THEN "changed" ELSE f.ts
    [] StepOf(f) = "return_unchanged" -> "unchanged"
    [] OTHER -> f.ts

\* The state a recipe returns from its last step.
return_state(f) ==
  CASE StepOf(f) = "return_clean" ->
         IF f.rs = "success" THEN "changed"
         ELSE IF f.rs = "not_empty" THEN "postponed" ELSE f.ts
    [] StepOf(f) = "return_unchanged" -> "unchanged"
    [] OTHER -> f.ts

\* The recipe worker w is in returns: execute stores the state, records a
\* postponed target, and returns the state to the caller. A target that
\* returns postponed in the second pass fails the operation.
EXReturn(w) ==
  /\ UNCHANGED exOthers
  /\ stack[w] # <<>> /\ StepOf(Top(w)) \in ReturnSteps
  /\ LET f == Top(w)
         t == f.t
         ts == return_state(f)
         n == Len(stack[w])
         again == ts = "postponed" /\ pass = 2
     IN /\ UNCHANGED <<op, kind, prereqs, exists, junk, mtime, runs, pass, todo>>
        /\ ppd' = [ppd EXCEPT ![t] = IF ts = "postponed" THEN @ + 1 ELSE @]
        /\ acted' = [acted EXCEPT ![t] = TRUE]
        /\ psp' = IF ts = "postponed" THEN psp \cup {t} ELSE psp
        /\ obs' = [obs EXCEPT ![t] = @ \cup {<<pass, IF again THEN "failed"
                                                              ELSE ts>>}]
        /\ IF again \/ (n > 1 /\ prereq_fails(stack[w][n - 1], t, ts))
             THEN /\ tg' = [u \in Targets |->
                              IF u = t /\ ~again
                                THEN [tg[u] EXCEPT !.raw_state = ts]
                              ELSE IF u \in OnStack(w)
                                THEN [tg[u] EXCEPT !.raw_state = "failed"]
                              ELSE tg[u]]
                  /\ busy' = [u \in Targets |-> busy[u] /\ u \notin OnStack(w)]
                  /\ stack' = [stack EXCEPT ![w] = <<>>]
                  /\ failedOp' = TRUE
             ELSE /\ tg' = [tg EXCEPT ![t].raw_state = ts]
                  /\ busy' = [busy EXCEPT ![t] = FALSE]
                  /\ stack' = [stack EXCEPT ![w] =
                                 IF n = 1 THEN <<>>
                                 ELSE [SubSeq(@, 1, n - 1) EXCEPT
                                         ![n - 1] = after(stack[w][n - 1], ts)]]
                  /\ failedOp' = failedOp

\* The first pass has finished: the second pass runs the targets recorded
\* as postponed.
EXNextPass ==
  /\ UNCHANGED exOthers
  /\ pass = 1 /\ todo = {} /\ \A w \in Workers : stack[w] = <<>>
  /\ pass' = 2
  /\ todo' = psp
  /\ UNCHANGED <<op, kind, prereqs, exists, junk, mtime, tg, busy, runs, ppd,
                 acted, obs, stack, psp, failedOp>>

EXFinish ==
  /\ UNCHANGED exOthers
  /\ pass = 2 /\ todo = {} /\ \A w \in Workers : stack[w] = <<>>
  /\ pass' = 3
  /\ UNCHANGED <<op, kind, prereqs, exists, junk, mtime, tg, busy, runs, ppd,
                 acted, obs, stack, todo, psp, failedOp>>

\* The number of dependents of t: the count match leaves on it.
dependents_of(t) == Cardinality({c \in Targets : t \in Range(prereqs[c])})

\* The targets as match leaves them for operation o: each with the recipe
\* its rule's apply returned and the count of its dependents.
matched(o) ==
  [t \in Targets |->
     [target_recipe(NewTarget, op_action(o),
                    rule_apply(kind[t], op_action(o), prereqs[t] # <<>>))
        EXCEPT !.dependents = dependents_of(t)]]

\* The state the operation starts in: the targets are matched, on a
\* consistent filesystem (a directory on disk lies in directories on disk;
\* the files exist, which is what path_rule::match requires for update).
EXStart ==
  /\ op \in {"update", "clean"}
  /\ \E sh \in Shapes : prereqs = [t \in Targets |-> shape_prereqs(sh, t)]
  /\ \E kp \in KindPatterns : kind = [t \in Targets |-> kind_of(kp, t)]
  /\ exists \in [Targets -> BOOLEAN]
  /\ junk \in [Targets -> BOOLEAN]
  /\ mtime \in [Targets -> 0 .. MaxTime]
  /\ \A t \in Targets :
       /\ junk[t] => exists[t] /\ kind[t] = "fsdir" /\ op = "clean"
       /\ (kind[t] = "fsdir" /\ exists[t]) =>
            \A p \in Range(prereqs[t]) : kind[p] = "fsdir" => exists[p]
       /\ kind[t] = "path" => exists[t]
       /\ (mtime[t] # 0) = (kind[t] = "path")
       /\ (op = "clean") => mtime[t] <= 1
  /\ tg = matched(op)
  /\ busy = [t \in Targets |-> FALSE]
  /\ runs = [t \in Targets |-> <<0, 0>>]
  /\ ppd = [t \in Targets |-> 0]
  /\ acted = [t \in Targets |-> FALSE]
  /\ obs = [t \in Targets |-> {}]
  /\ stack = [w \in Workers |-> <<>>]
  /\ pass = 1
  /\ todo \in {Targets, {t \in Targets : dependents_of(t) = 0}}
  /\ psp = {}
  /\ failedOp = FALSE

\* The executor's variables while another part is being checked.
EXIdle ==
  /\ op = "update"
  /\ kind = [t \in Targets |-> "fsdir"]
  /\ prereqs = [t \in Targets |-> <<>>]
  /\ exists = [t \in Targets |-> FALSE]
  /\ junk = [t \in Targets |-> FALSE]
  /\ mtime = [t \in Targets |-> 0]
  /\ tg = [t \in Targets |-> NewTarget]
  /\ busy = [t \in Targets |-> FALSE]
  /\ runs = [t \in Targets |-> <<0, 0>>]
  /\ ppd = [t \in Targets |-> 0]
  /\ acted = [t \in Targets |-> FALSE]
  /\ obs = [t \in Targets |-> {}]
  /\ stack = [w \in Workers |-> <<>>]
  /\ pass = 3
  /\ todo = {}
  /\ psp = {}
  /\ failedOp = FALSE

EXNext ==
  \/ \E w \in Workers, t \in Targets : EXTake(w, t)
  \/ \E w \in Workers : EXPrereq(w)
  \/ \E w \in Workers : EXOwn(w)
  \/ \E w \in Workers : EXReturn(w)
  \/ EXNextPass
  \/ EXFinish

(***************************************************************************)
(* Operations performed one after the other, each by a new run of the      *)
(* driver on the filesystem the one before left.                           *)
(***************************************************************************)

\* The sequences of operations tried.
Scenarios == {<<"update", "update", "clean">>, <<"clean", "clean">>}

\* The operation is over: what it did is noted, and the next operation of
\* the plan starts with the targets matched anew.
EXNextOp ==
  /\ UNCHANGED opOthers
  /\ pass = 3 /\ plan # <<>>
  /\ hist' = Append(hist, [op |-> op,
                           report |-> [t \in Targets |-> tg[t].raw_state],
                           exists |-> exists,
                           psp |-> psp,
                           failed |-> failedOp])
  /\ plan' = Tail(plan)
  /\ op' = Head(plan)
  /\ tg' = matched(Head(plan))
  /\ busy' = [t \in Targets |-> FALSE]
  /\ runs' = [t \in Targets |-> <<0, 0>>]
  /\ ppd' = [t \in Targets |-> 0]
  /\ acted' = [t \in Targets |-> FALSE]
  /\ obs' = [t \in Targets |-> {}]
  /\ stack' = [w \in Workers |-> <<>>]
  /\ pass' = 1
  /\ todo' = roots
  /\ psp' = {}
  /\ failedOp' = FALSE
  /\ UNCHANGED <<kind, prereqs, exists, junk, mtime, roots, exists0>>

\* The first operation of a scenario starts. Files matter to clean twice
\* only, and all have the same mtime.
OPStart ==
  /\ EXStart
  /\ \A t \in Targets : mtime[t] <= 1 /\ (op = "update" => kind[t] = "fsdir")
  /\ \E sc \in Scenarios : op = Head(sc) /\ plan = Tail(sc)
  /\ hist = <<>>
  /\ roots = todo
  /\ exists0 = exists

OPIdle ==
  /\ plan = <<>> /\ hist = <<>> /\ roots = {}
  /\ exists0 = [t \in Targets |-> FALSE]

OPNext ==
  \/ \E w \in Workers, t \in Targets : EXTake(w, t)
  \/ \E w \in Workers : EXPrereq(w)
  \/ \E w \in Workers : EXOwn(w)
  \/ \E w \in Workers : EXReturn(w)
  \/ EXNextPass
  \/ EXFinish
  \/ EXNextOp

(***************************************************************************)
(* The matcher: the rules registered for the target are asked in lookup    *)
(* order, path_rule (the last, fallback rule) after all others.            *)
(***************************************************************************)

RuleNames == {<<"c">>, <<"c", "x", "x">>}

Hints == {<<>>} \cup RuleNames

\* The entry path_rule is registered under.
path_rule_entry == [name |-> <<"f", "i", "l", "e">>, rule |-> "path_rule"]

\* The rules in lookup order.
Registry == rules \o <<path_rule_entry>>

\* path_rule is the fallback rule: it cannot be ambiguous with any other.
is_fallback_mut(r) == FALSE

is_fallback(r) == r.rule = "path_rule"

\* A hint matches a rule name by prefix.
hint_matches(h, n) == Len(h) <= Len(n) /\ SubSeq(n, 1, Len(h)) = h

NoMatch == [status |-> "none", rule |-> 0, recipe |-> "none"]

\* The next rule is asked: rule.match (a, t, hint) of a rule other than
\* path_rule answers c.
MTRuleMatch(c) ==
  /\ UNCHANGED mtOthers
  /\ Len(asked) < Len(rules)
  /\ LET r == Registry[Len(asked) + 1]
     IN IF hint_matches(hint, r.name)
          THEN asked' = Append(asked, IF c THEN "yes" ELSE "no")
          ELSE ~c /\ asked' = Append(asked, "skip")
  /\ UNCHANGED <<disk, ptgt, rules, hint, act, mres>>

\* path_rule is asked: path_rule::match.
MTPathRuleMatch ==
  /\ UNCHANGED mtOthers
  /\ Len(asked) = Len(rules)
  /\ IF hint_matches(hint, path_rule_entry.name)
       THEN LET m == path_rule_match(act, ptgt, disk)
            IN /\ asked' = Append(asked, IF m.claims THEN "yes" ELSE "no")
               /\ ptgt' = [ptgt EXCEPT !.path = m.path]
       ELSE asked' = Append(asked, "skip") /\ ptgt' = ptgt
  /\ UNCHANGED <<disk, rules, hint, act, mres>>

\* The rules that claimed the target, without the fallback.
claimers == {i \in DOMAIN asked : asked[i] = "yes" /\ ~is_fallback(Registry[i])}

fallback_claims ==
  \E i \in DOMAIN asked : asked[i] = "yes" /\ is_fallback(Registry[i])

Min(S) == CHOOSE i \in S : \A j \in S : i <= j

\* The recipe rule.apply returns: that of path_rule::apply, or the recipe
\* of another rule.
apply_recipe(i) ==
  IF Registry[i].rule = "path_rule"
    THEN path_rule_apply(act, ptgt.has) ELSE "perform_update"

\* All rules were asked: the match is ambiguous, or a rule is chosen and
\* applied, or there is no rule.
MTDecide ==
  /\ UNCHANGED mtOthers
  /\ Len(asked) = Len(Registry) /\ mres = NoMatch
  /\ mres' =
       IF hint = <<>> /\ Cardinality(claimers) >= 2
         THEN [status |-> "ambiguous-match", rule |-> 0, recipe |-> "none"]
       ELSE IF claimers # {}
         THEN [status |-> "matched", rule |-> Min(claimers),
               recipe |-> apply_recipe(Min(claimers))]
       ELSE IF fallback_claims
         THEN [status |-> "matched", rule |-> Len(Registry),
               recipe |-> apply_recipe(Len(Registry))]
       ELSE [status |-> "no-rule", rule |-> 0, recipe |-> "none"]
  /\ UNCHANGED <<disk, ptgt, rules, hint, act, asked>>

\* The paths a file of the target can have.
Paths == {derive_path([dir |-> d, name |-> "foo", ext |-> e]) :
            d \in Dirs, e \in Exts}

\* match (a, t) is called for a path target, which has its extension, with
\* its path assigned or not.
MTStart ==
  /\ disk \in SUBSET Paths
  /\ ptgt \in [dir : Dirs, name : {"foo"}, ext : Exts,
                path : {<<>>} \cup Paths, has : BOOLEAN]
  /\ \E n \in 0 .. NumRules :
       rules \in [1 .. n -> [name : RuleNames, rule : {"rule"}]]
  /\ hint \in Hints
  /\ act \in Actions
  /\ asked = <<>>
  /\ mres = NoMatch

MTIdle ==
  /\ disk = {}
  /\ ptgt = [dir |-> "a/", name |-> "foo", ext |-> "", path |-> <<>>,
             has |-> FALSE]
  /\ rules = <<>>
  /\ hint = <<>>
  /\ act = NoAction
  /\ asked = <<>>
  /\ mres = NoMatch

MTNext ==
  \/ \E c \in BOOLEAN : MTRuleMatch(c)
  \/ MTPathRuleMatch
  \/ MTDecide

(***************************************************************************)
(* Bootstrap and import (build/file.cxx). A directory is the sequence of   *)
(* its components. The importing project is a/; the project p has its out  *)
(* directory o/p/ in the amalgamation o/, and its sources in s/p/ or t/p/  *)
(* or, built in source, in o/p/ itself.                                    *)
(***************************************************************************)

Null == <<"null">>

ScopeDirs == {<<"a">>, <<"o">>, <<"o", "p">>}

SrcTrees == {"s", "t"}

\* The directory d in the source tree tr.
in_tree(tr, d) == <<tr>> \o Tail(d)

\* dir_path operator/ followed by normalize (), for the values met: a
\* subdirectory, and .. which leads to the parent.
dir_join(d, e) == IF e = <<"..">> THEN SubSeq(d, 1, Len(d) - 1) ELSE d \o e

NoScope ==
  [live |-> FALSE, out_root |-> Null, src_root |-> Null,
   amalgamation |-> Null, subprojects |-> Null, config_p |-> Null,
   buildfiles |-> {}, meta_operations |-> <<>>, operations |-> <<>>,
   src_path_ |-> Null, src_path0 |-> Null]

\* A buildfile: the file f of the build/ directory of d.
bfile(d, f) == [d |-> d, f |-> f]

\* file_exists: src-root.build where the out directory was configured;
\* bootstrap.build, root.build and export.build in the source directories.
file_exists(bf) ==
  IF bf.f = "src-root.build"
    THEN bf.d \in DOMAIN srcroot /\ srcroot[bf.d] # Null
    ELSE \/ bf.d = <<"a">>
         \/ Head(bf.d) \in SrcTrees
         \/ Head(bf.d) = "o" /\ insrc

\* is_src_root.
is_src_root(d) ==
  file_exists(bfile(d, "bootstrap.build")) \/ file_exists(bfile(d, "root.build"))

\* An event of a call is added to its log.
note(S, e) == [S EXCEPT !.log = Append(@, e)]

\* install::boot: the module registers its operations in the root scope.
boot(sc) ==
  [sc EXCEPT !.operations =
     @ \o <<"install", "uninstall", "update-for-install">>]

\* source: the file is opened and parsed in scope base. What the
\* buildfiles do: src-root.build assigns src_root; the bootstrap.build of
\* a subproject names its amalgamation, that of an amalgamation its
\* subprojects, and both load the install module.
source(S, bf, base) ==
  IF ~file_exists(bf) THEN [S EXCEPT !.err = "unable to open"]
  ELSE LET T == note(S, <<"source", bf, base>>)
           sc == T.scopes[base]
       IN CASE bf.f = "src-root.build" ->
                 [T EXCEPT !.scopes[base].src_root = srcroot[bf.d]]
            [] bf.f = "bootstrap.build" /\ bf.d # <<"a">> ->
                 [T EXCEPT !.scopes[base] =
                    boot(IF Len(bf.d) = 2
                           THEN [sc EXCEPT !.amalgamation = <<"..">>]
                           ELSE [sc EXCEPT !.subprojects = <<"p">>])]
            [] OTHER -> T

\* source_once.
source_once_mut(S, bf, base, once) == source(S, bf, base)

source_once(S, bf, base, once) ==
  IF bf \in S.scopes[once].buildfiles THEN S
  ELSE source([S EXCEPT !.scopes[once].buildfiles = @ \cup {bf}], bf, base)

\* Mutant of builtin_names: the names are registered at every call.
builtin_names_mut(sc) ==
  IF ndebug THEN sc
  ELSE [sc EXCEPT !.meta_operations = Append(@, "perform"),
                  !.operations = @ \o <<"default", "update", "clean">>]

\* The registration of the built-in names in create_root: each insert is
\* the argument of an assert, so it is made only in a build that keeps
\* assert; the id of an entry is its insertion position.
builtin_names(sc) ==
  IF sc.meta_operations # <<>> \/ ndebug THEN sc
  ELSE [sc EXCEPT !.meta_operations = Append(@, "perform"),
                  !.operations = @ \o <<"default", "update", "clean">>]

\* The asserts hold if the ids are the insertion positions.
builtin_asserts(sc) ==
  ~(sc.meta_operations = <<>> /\ ~ndebug /\ sc.operations # <<>>)

\* The check of create_root of a variable against the new value.
root_mismatch_mut(old, new) == FALSE

root_mismatch(old, new) == old # Null /\ old # new

\* Mutant of create_root: the variables are assigned whatever they hold.
create_root_mut(S, out_root, src_root) ==
  LET rs == IF S.scopes[out_root].live THEN S.scopes[out_root]
            ELSE [NoScope EXCEPT !.live = TRUE]
      r1 == [builtin_names(rs) EXCEPT
               !.out_root = out_root,
               !.src_root = IF src_root = <<>> THEN @ ELSE src_root]
  IN note([S EXCEPT !.scopes[out_root] = r1], <<"create_root", out_root>>)

\* create_root.
create_root(S, out_root, src_root) ==
  LET rs == IF S.scopes[out_root].live THEN S.scopes[out_root]
            ELSE [NoScope EXCEPT !.live = TRUE]
      r1 == builtin_names(rs)
      T == note([S EXCEPT !.scopes[out_root] = r1], <<"create_root", out_root>>)
  IN IF ~builtin_asserts(rs) THEN [T EXCEPT !.err = "assert"]
     ELSE IF root_mismatch(r1.out_root, out_root)
       THEN [T EXCEPT !.err = "new out_root does not match existing"]
     ELSE LET U == [T EXCEPT !.scopes[out_root].out_root = out_root]
          IN IF src_root = <<>> THEN U
             ELSE IF root_mismatch(r1.src_root, src_root)
               THEN [U EXCEPT !.err = "new src_root does not match existing"]
             ELSE [U EXCEPT !.scopes[out_root].src_root = src_root]

\* bootstrap_out.
bootstrap_out(S, root) ==
  LET bf == bfile(root, "src-root.build")
      T == note(S, <<"bootstrap_out", root>>)
  IN IF ~file_exists(bf) THEN T ELSE source_once(T, bf, root, root)

\* bootstrap_src, on the directory src_path_ points to.
bootstrap_src(S, root) ==
  LET bf == bfile(S.scopes[root].src_root, "bootstrap.build")
      T == note(S, <<"bootstrap_src", root>>)
  IN IF ~file_exists(bf) THEN T ELSE source_once(T, bf, root, root)

\* rs.src_path_ = &p, p the value of the src_root variable of rs: the
\* pointer denotes whatever directory the variable holds. src_path0 notes
\* the directory it denoted when it was first set.
set_src_path(S, rs) ==
  note([S EXCEPT !.scopes[rs].src_path_ = <<"&src_root">>,
                 !.scopes[rs].src_path0 =
                    IF @ = Null THEN S.scopes[rs].src_root ELSE @],
       <<"src_path_", rs>>)

\* Mutant of bootstrap_root: bootstrap_src comes before src_root is
\* determined.
bootstrap_root_swapped(S, rs, src_root, what) ==
  IF S.err # "" THEN S
  ELSE LET T == bootstrap_out(S, rs)
           p == T.scopes[rs].src_root
       IN IF T.err # "" THEN T
          ELSE IF p = Null
            THEN [T EXCEPT !.err = "unable to determine src_root"]
          ELSE IF src_root # <<>> /\ src_root # p
            THEN [T EXCEPT !.err = "bootstrapped src_root does not match " \o what]
          ELSE set_src_path(bootstrap_src(T, rs), rs)

\* Mutant of bootstrap_root: src_root is not checked.
bootstrap_root_mut(S, rs, src_root, what) ==
  IF S.err # "" THEN S
  ELSE LET T == bootstrap_out(S, rs)
       IN IF T.err # "" THEN T
          ELSE bootstrap_src(set_src_path(T, rs), rs)

\* What create_bootstrap_outer, create_bootstrap_inner and import do with
\* a root once it is created: bootstrap_out, the check of src_root against
\* the expected directory (none: <<>>), src_path_, bootstrap_src.
bootstrap_root(S, rs, src_root, what) ==
  IF S.err # "" THEN S
  ELSE LET T == bootstrap_out(S, rs)
           p == T.scopes[rs].src_root
       IN IF T.err # "" THEN T
          ELSE IF p = Null
            THEN [T EXCEPT !.err = "unable to determine src_root"]
          ELSE IF src_root # <<>> /\ src_root # p
            THEN [T EXCEPT !.err = "bootstrapped src_root does not match " \o what]
          ELSE bootstrap_src(set_src_path(T, rs), rs)

RECURSIVE create_bootstrap_outer(_, _)
\* create_bootstrap_outer.
create_bootstrap_outer(S, root) ==
  IF S.err # "" \/ S.scopes[root].amalgamation = Null THEN S
  ELSE LET d == S.scopes[root].amalgamation
           out_root == dir_join(root, d)
           src_root == dir_join(S.scopes[root].src_root, d)
           T == note(S, <<"outer", out_root>>)
       IN create_bootstrap_outer(
            bootstrap_root(create_root(T, out_root, src_root), out_root,
                           src_root, "amalgamated"),
            out_root)

\* out_base.sub (out_root).
dir_sub(d, r) == Len(r) <= Len(d) /\ SubSeq(d, 1, Len(r)) = r

RECURSIVE create_bootstrap_inner(_, _, _)
\* create_bootstrap_inner: the result is the innermost root, in ret.
create_bootstrap_inner(S, root, out_base) ==
  IF S.err # "" THEN S
  ELSE LET n == S.scopes[root].subprojects
           out_root == dir_join(root, n)
           src_root == dir_join(S.scopes[root].src_root, n)
       IN IF n = Null \/ ~dir_sub(out_base, out_root)
            THEN [S EXCEPT !.ret = root]
          ELSE create_bootstrap_inner(
                 bootstrap_root(create_root(S, out_root, src_root), out_root,
                                src_root, "subproject"),
                 out_root, out_base)

\* Mutant of outer_root: no root scope is found around root.
outer_root_mut(S, root) == Null

\* root.parent_scope ()->root_scope (): the root scope around root, if any.
outer_root(S, root) ==
  IF Len(root) > 1 /\ S.scopes[SubSeq(root, 1, Len(root) - 1)].live
    THEN SubSeq(root, 1, Len(root) - 1) ELSE Null

RECURSIVE load_root_pre(_, _)
\* load_root_pre.
load_root_pre(S, root) ==
  IF S.err # "" THEN S
  ELSE LET T == IF outer_root(S, root) = Null THEN S
                ELSE load_root_pre(S, outer_root(S, root))
           bf == bfile(T.scopes[root].src_root, "root.build")
           U == note(T, <<"load_root", root>>)
       IN IF T.err # "" THEN T
          ELSE IF T.scopes[root].src_path_ = Null
            THEN [T EXCEPT !.err = "null src_path_"]
          ELSE IF file_exists(bf) THEN source_once(U, bf, root, root) ELSE U

\* The directory in which relative paths are completed.
work == <<"o">>

\* Mutant of import_out_root: an undefined config.<project> is guessed.
import_out_root_guess(S, iroot) ==
  IF S.scopes[iroot].config_p # Null
    THEN [S EXCEPT !.ret = S.scopes[iroot].config_p]
  ELSE IF gconfig.set /\ Len(gconfig.lv) # 1
    THEN [S EXCEPT !.err = "invalid config value"]
  ELSE [S EXCEPT !.ret = dir_join(work, <<"p">>),
                 !.scopes[iroot].config_p = dir_join(work, <<"p">>)]

\* Mutant of import_out_root: the completed value is not assigned.
import_out_root_mut(S, iroot) ==
  IF S.scopes[iroot].config_p # Null
    THEN [S EXCEPT !.ret = S.scopes[iroot].config_p]
  ELSE IF ~gconfig.set
    THEN [S EXCEPT !.err = "unable to find out_root"]
  ELSE IF Len(gconfig.lv) # 1
    THEN [S EXCEPT !.err = "invalid config value"]
  ELSE [S EXCEPT !.ret = dir_join(work, gconfig.lv[1])]

\* import: the out_root of the project from config.<project>. A value of
\* the importing root scope is taken as it is; a value of the global scope
\* is a list of names: one simple name gives the directory of that name,
\* completed against work, and the result is assigned in the importing
\* root scope.
import_out_root(S, iroot) ==
  IF S.scopes[iroot].config_p # Null
    THEN [S EXCEPT !.ret = S.scopes[iroot].config_p]
  ELSE IF ~gconfig.set
    THEN [S EXCEPT !.err = "unable to find out_root"]
  ELSE IF Len(gconfig.lv) # 1
    THEN [S EXCEPT !.err = "invalid config value"]
  ELSE [S EXCEPT !.ret = dir_join(work, gconfig.lv[1]),
                 !.scopes[iroot].config_p = dir_join(work, gconfig.lv[1])]

\* The mutant of discovered_src_root: src_root is never guessed.
discovered_src_root_mut(out_root) == <<>>

\* The local src_root of import: out_root where it is a source root, the
\* empty path otherwise; here we do not try to guess src_root.
discovered_src_root(out_root) ==
  IF is_src_root(out_root) THEN out_root ELSE <<>>

\* import: the imported root is bootstrapped and loaded, and the export
\* stub is evaluated in a temporary scope, which holds out_root, src_root
\* and the target; the stub exports the target in the imported out_root.
import(S0, iroot, target) ==
  LET S == import_out_root(S0, iroot)
      out_root == S.ret
      src_root == discovered_src_root(out_root)
      T == IF S.err # "" THEN S
           ELSE bootstrap_root(create_root(S, out_root, src_root), out_root,
                               src_root, "discovered")
      U == load_root_pre(create_bootstrap_outer(T, out_root), out_root)
      es == bfile(U.scopes[out_root].src_root, "export.build")
      ts == [out_root |-> out_root, src_root |-> src_root, target |-> target]
  IN IF S.err # "" THEN S
     ELSE IF U.err # "" THEN [U EXCEPT !.ret = Null]
     ELSE IF ~file_exists(es)
       THEN [U EXCEPT !.err = "unable to open", !.ret = Null, !.temp = ts]
     ELSE [note(U, <<"export", out_root>>) EXCEPT
             !.ret = <<out_root, target>>, !.temp = ts]

NoTemp == [out_root |-> Null, src_root |-> Null, target |-> Null]

\* A call starts from the scopes as they are.
call_state == [scopes |-> scopes, log |-> <<>>, err |-> "", ret |-> Null,
               temp |-> NoTemp]

\* A call ended in S.
Called(what, S) ==
  /\ UNCHANGED btOthers
  /\ nboots < MaxBoots
  /\ nboots' = nboots + 1
  /\ \E R \in {S} :
       /\ scopes' = R.scopes
       /\ blast' = [op |-> what, log |-> R.log, err |-> R.err, ret |-> R.ret,
                    temp |-> R.temp]
  /\ UNCHANGED <<gconfig, srcroot, insrc, ndebug>>

\* The source directories.
SrcDirs == {in_tree(tr, d) : tr \in SrcTrees, d \in ScopeDirs} \cup ScopeDirs

\* The source directories a root in out directory d can have: that of a
\* source tree, or d itself where the build is in source.
SrcDirsOf(d) ==
  {in_tree(tr, d) : tr \in SrcTrees}
    \cup (IF insrc \/ d = <<"a">> THEN {d} ELSE {})

BTCreateRoot(out_root, src_root) ==
  /\ src_root \in SrcDirsOf(out_root) \cup {<<>>}
  /\ Called(<<"create_root", out_root, src_root>>,
            [create_root(call_state, out_root, src_root)
               EXCEPT !.ret = out_root])

\* The activation of a root scope by main: create_root, bootstrap_out,
\* src_path_, bootstrap_src, with src_root given or (<<>>) left to
\* src-root.build.
BTActivate(out_root, src_root) ==
  /\ src_root \in SrcDirsOf(out_root) \cup {<<>>}
  /\ Called(<<"activate", out_root, src_root>>,
            bootstrap_root(create_root(call_state, out_root, src_root),
                           out_root, src_root, "given"))

\* The buildfiles source_once is called for directly.
RootFiles == {"src-root.build", "root.build"}

BTSourceOnce(d, f) ==
  /\ scopes[d].live
  /\ Called(<<"source_once", bfile(d, f)>>,
            source_once(call_state, bfile(d, f), d, d))

BTBootstrapOuter(root) ==
  /\ scopes[root].live /\ scopes[root].src_path_ # Null
  /\ Called(<<"create_bootstrap_outer", root>>,
            create_bootstrap_outer(call_state, root))

BTBootstrapInner(root, out_base) ==
  /\ scopes[root].live /\ scopes[root].src_path_ # Null
  /\ Called(<<"create_bootstrap_inner", root, out_base>>,
            create_bootstrap_inner(call_state, root, out_base))

BTImport(target) ==
  /\ scopes[<<"a">>].live
  /\ Called(<<"import", target>>, import(call_state, <<"a">>, target))

\* The state main leaves: the root scope of the importing project a/,
\* built in source, is created and bootstrapped. config.<project> is set
\* in its config.build, or on the command line, or not at all. The out
\* directories o/ and o/p/ are configured (src-root.build) for a source
\* tree or not; the trees are alike, and o/ is configured for the first.
BTStart ==
  /\ insrc \in BOOLEAN /\ ndebug \in BOOLEAN
  /\ \E f \in [{<<"o">>, <<"o", "p">>} -> SrcTrees \cup {"none"}] :
       /\ f[<<"o">>] # "t"
       /\ srcroot = [d \in DOMAIN f |->
                       IF f[d] = "none" THEN Null ELSE in_tree(f[d], d)]
  /\ gconfig \in {[set |-> FALSE, lv |-> <<>>],
                  [set |-> TRUE, lv |-> <<<<"p">>>>],
                  [set |-> TRUE, lv |-> <<<<"p">>, <<"q">>>>]}
  /\ \E c \in {Null, <<"o", "p">>} :
       /\ c # Null => ~gconfig.set
       /\ scopes = [d \in ScopeDirs |->
            IF d # <<"a">> THEN NoScope
            ELSE [builtin_names([NoScope EXCEPT !.live = TRUE])
                    EXCEPT !.out_root = d, !.src_root = d, !.config_p = c,
                           !.src_path_ = <<"&src_root">>, !.src_path0 = d,
                           !.buildfiles = {bfile(d, "bootstrap.build")}]]
  /\ nboots = 0
  /\ blast = [op |-> <<"none">>, log |-> <<>>, err |-> "", ret |-> Null,
              temp |-> NoTemp]

\* load_root_pre is called for a root that is bootstrapped, as are the
\* root scopes around it.
BTLoadRootPre(root) ==
  /\ scopes[root].live
  /\ \A d \in ScopeDirs :
       (scopes[d].live /\ dir_sub(root, d)) => scopes[d].src_path_ # Null
  /\ Called(<<"load_root_pre", root>>, load_root_pre(call_state, root))

\* The state main leaves before it loads: the project in o/ or in o/p/ is
\* activated and its outer roots are bootstrapped.
LDStart ==
  /\ insrc \in BOOLEAN /\ ndebug \in BOOLEAN
  /\ \E f \in [{<<"o">>, <<"o", "p">>} -> SrcTrees \cup {"none"}] :
       /\ f[<<"o">>] # "t"
       /\ srcroot = [d \in DOMAIN f |->
                       IF f[d] = "none" THEN Null ELSE in_tree(f[d], d)]
  /\ gconfig \in {[set |-> FALSE, lv |-> <<>>],
                  [set |-> TRUE, lv |-> <<<<"p">>>>]}
  /\ \E out_root \in ScopeDirs \ {<<"a">>}, src_root \in SrcDirs \cup {<<>>} :
       LET S0 == [scopes |-> [d \in ScopeDirs |-> NoScope], log |-> <<>>,
                  err |-> "", ret |-> Null, temp |-> NoTemp]
           A == bootstrap_root(create_root(S0, <<"a">>, <<"a">>), <<"a">>,
                               <<"a">>, "given")
           S == create_bootstrap_outer(
                  bootstrap_root(create_root(A, out_root, src_root), out_root,
                                 src_root, "given"),
                  out_root)
       IN /\ src_root \in SrcDirsOf(out_root) \cup {<<>>}
          /\ S.err = ""
          /\ scopes = S.scopes
  /\ nboots = 0
  /\ blast = [op |-> <<"none">>, log |-> <<>>, err |-> "", ret |-> Null,
              temp |-> NoTemp]

LDNext ==
  \/ \E r \in ScopeDirs : BTLoadRootPre(r)
  \/ \E t \in {Null, <<"lib">>} : BTImport(t)

BTIdle ==
  /\ insrc = FALSE /\ ndebug = FALSE
  /\ srcroot = [d \in {<<"o">>, <<"o", "p">>} |-> Null]
  /\ gconfig = [set |-> FALSE, lv |-> <<>>]
  /\ scopes = [d \in ScopeDirs |-> NoScope]
  /\ nboots = MaxBoots
  /\ blast = [op |-> <<"none">>, log |-> <<>>, err |-> "", ret |-> Null,
              temp |-> NoTemp]

BTNext ==
  \/ \E o \in ScopeDirs, s \in SrcDirs \cup {<<>>} : BTCreateRoot(o, s)
  \/ \E o \in ScopeDirs \ {<<"a">>}, s \in SrcDirs \cup {<<>>} : BTActivate(o, s)
  \/ \E d \in ScopeDirs, f \in RootFiles : BTSourceOnce(d, f)
  \/ \E r \in ScopeDirs : BTBootstrapOuter(r)
  \/ \E r \in ScopeDirs : BTBootstrapInner(r, <<"o", "p">>)
  \/ \E t \in {Null, <<"lib">>} : BTImport(t)

(***************************************************************************)
(* The test script runner: concurrent_runner::enter, run and leave of      *)
(* src/build2/test/script/runner.cxx, and the cleanups of                  *)
(* src/libbuild2/script/script.hxx.                                        *)
(***************************************************************************)

\* sp.wd_path, the working directory of the test scope.
wd_path == "w/"

\* The files the outputs of a command are cached in and those the
\* expected outputs are written to.
OutFiles == {"w/stdout", "w/stderr"}

OrigFiles == {"w/stdout.orig", "w/stderr.orig"}

\* op + ".orig".
orig(f) == IF f = "w/stdout" THEN "w/stdout.orig" ELSE "w/stderr.orig"

\* The paths: the working directory, a file and a directory in it, the
\* files of the outputs, and a file outside.
FsPaths == {wd_path, "w/f", "w/d/", "x"} \cup OutFiles \cup OrigFiles

\* path::to_directory: the path ends with a directory separator.
to_directory(p) == p \in {wd_path, "w/d/"}

\* The directory a path is in; that of w/ and of x always exists.
parent(p) == IF p \in {wd_path, "x"} THEN "/" ELSE wd_path

\* exists (path) and empty (dir_path) of <build2/filesystem>.
fs_exists(fs, p) == p \in fs

fs_empty(fs, d) == \A p \in fs : parent(p) # d

\* mkdir: the directory is created in its parent.
fs_mkdir(fs, d) == fs \cup {d}

\* rmdir: the status, and the filesystem after it.
rmdir_status(fs, d) ==
  IF d \notin fs THEN "not_exist"
  ELSE IF ~fs_empty(fs, d) THEN "not_empty"
  ELSE "success"

\* rmfile: the status; an existing file is removed.
rmfile_status(fs, p) == IF p \notin fs THEN "not_exist" ELSE "success"

\* cleanup_type.
CleanupTypes == {"always", "maybe", "never"}

\* A state of the runner as a call goes on: the filesystem, the contents
\* of the output files, the cleanups, the paths removed, the checks of
\* output made, and the error the call failed with, if it did.
runner_state ==
  [fs |-> wfs, data |-> wdata, cleanups |-> cleanups, removed |-> <<>>,
   checks |-> <<>>, err |-> ""]

\* sp.cleanups.emplace_back (p): the path is registered, again if it is
\* registered already; it is cleaned up always.
emplace_back(S, p) ==
  [S EXCEPT !.cleanups = Append(@, [type |-> "always", path |-> p])]

\* Mutant of enter: a working directory that is not empty is accepted.
enter_mut(S) ==
  emplace_back([S EXCEPT !.fs = fs_mkdir(@, wd_path)], wd_path)

\* concurrent_runner::enter.
enter(S) ==
  IF ~fs_exists(S.fs, wd_path)
    THEN emplace_back([S EXCEPT !.fs = fs_mkdir(@, wd_path)], wd_path)
  ELSE IF ~fs_empty(S.fs, wd_path)
    THEN [S EXCEPT !.err = "directory is not empty"]
  ELSE emplace_back(S, wd_path)

\* The positions of the cleanups registered for the path p.
registered(cl, p) == {i \in DOMAIN cl : cl[i].path = p}

\* Mutant of clean: a registered path is registered once more.
clean_mut(S, c, implicit) == [S EXCEPT !.cleanups = Append(@, c)]

\* environment::clean (cleanup, implicit): an implicit registration of a
\* path outside the working directory is ignored; a path not registered
\* yet is added; an explicit registration of a registered path overrides
\* its type.
clean(S, c, implicit) ==
  IF implicit /\ parent(c.path) # wd_path /\ c.path # wd_path THEN S
  ELSE IF registered(S.cleanups, c.path) = {}
    THEN [S EXCEPT !.cleanups = Append(@, c)]
  ELSE IF implicit THEN S
  ELSE [S EXCEPT !.cleanups =
          [i \in DOMAIN @ |->
             IF @[i].path = c.path THEN [@[i] EXCEPT !.type = c.type] ELSE @[i]]]

\* Mutant of remove_path: a directory is removed with what is in it.
remove_path_mut(S, c) ==
  IF c.type = "never" THEN S
  ELSE IF c.path \in S.fs
    THEN [S EXCEPT !.fs = {p \in @ : p # c.path /\ parent(p) # c.path},
                   !.removed = Append(@, c.path)]
  ELSE IF c.type = "maybe" THEN S
  ELSE [S EXCEPT !.err = "registered for cleanup path does not exist"]

\* leave, for one registered path seen for the first time: a directory
\* is removed with rmdir and has to be empty, a file with rmfile. A path
\* that is to be cleaned up always has to exist; one that is never to be
\* cleaned up is left alone.
remove_path(S, c) ==
  IF c.type = "never" THEN S
  ELSE IF to_directory(c.path)
    THEN LET r == rmdir_status(S.fs, c.path)
         IN IF r = "success"
              THEN [S EXCEPT !.fs = @ \ {c.path},
                             !.removed = Append(@, c.path)]
            ELSE IF r = "not_exist" /\ c.type = "maybe" THEN S
            ELSE [S EXCEPT !.err =
                    IF r = "not_empty"
                      THEN "registered for cleanup directory is not empty"
                      ELSE "registered for cleanup directory does not exist"]
  ELSE IF rmfile_status(S.fs, c.path) = "not_exist"
    THEN IF c.type = "maybe" THEN S
         ELSE [S EXCEPT !.err = "registered for cleanup file does not exist"]
  ELSE [S EXCEPT !.fs = @ \ {c.path}, !.removed = Append(@, c.path)]

RECURSIVE leave_from(_, _, _)
\* The loop of leave, from the cleanup i down, rp the paths seen.
leave_from(S, i, rp) ==
  IF i = 0 \/ S.err # "" THEN S
  ELSE LET c == S.cleanups[i]
       IN IF c.path \in rp THEN leave_from(S, i - 1, rp)
          ELSE leave_from(remove_path(S, c), i - 1, rp \cup {c.path})

\* Mutant of leave: the cleanups are walked in the order of their
\* registration.
leave_mut(S) ==
  LET n == Len(S.cleanups)
      R == leave_from([S EXCEPT !.cleanups = [i \in 1..n |-> @[n + 1 - i]]], n, {})
  IN [R EXCEPT !.cleanups = S.cleanups]

\* concurrent_runner::leave.
leave(S) == leave_from(S, Len(S.cleanups), {})

\* The lines an output or an expected output can consist of; a^M is the
\* line a with a carriage return at its end.
Contents == {<<>>, <<"a">>, <<"a^M">>, <<"b">>}

\* What diff --strip-trailing-cr compares of a line.
strip_trailing_cr(l) == IF l = "a^M" THEN "a" ELSE l

\* Mutant of diff_identical: the carriage returns are compared too, and
\* an empty output is identical to anything.
diff_identical_mut(a, b) == a = b \/ b = <<>>

\* diff --strip-trailing-cr -u orp op exits with 0.
diff_identical(a, b) ==
  /\ Len(a) = Len(b)
  /\ \A i \in DOMAIN a : strip_trailing_cr(a[i]) = strip_trailing_cr(b[i])

\* non_empty: the path is not empty, and the file exists and is not empty.
non_empty(S, p) == p # "" /\ fs_exists(S.fs, p) /\ S.data[p] # <<>>

\* check_output of the output nm cached in the file f against the
\* redirect rd.
check_output(S, nm, f, rd) ==
  IF S.err # "" THEN S
  ELSE LET T == [S EXCEPT !.checks = Append(@, nm)]
       IN IF rd.type = "none"
            THEN IF non_empty(T, f)
                   THEN [T EXCEPT !.err = nm \o " unexpectedly written"]
                   ELSE T
          ELSE IF rd.type \in {"here_string", "here_document"}
            THEN LET orp == orig(f)
                     U == emplace_back(
                            [T EXCEPT !.fs = @ \cup {orp}, !.data[orp] = rd.str],
                            orp)
                 IN IF diff_identical(U.data[orp], U.data[f]) THEN U
                    ELSE [U EXCEPT !.err = nm \o " doesn't match the expected output"]
          ELSE T

\* The file the output dfd of a command is redirected to: none (the
\* empty path) for pass and null.
out_path(r, dfd) ==
  IF r.type \in {"pass", "null"} THEN ""
  ELSE IF dfd = 1 THEN "w/stdout" ELSE "w/stderr"

\* The lambda open of run: the file of the redirect is opened, empty,
\* and registered for cleanup.
open(S, r, dfd) ==
  LET p == out_path(r, dfd)
  IN IF S.err # "" \/ p = "" THEN S
     ELSE IF ~fs_exists(S.fs, parent(p))
       THEN [S EXCEPT !.err = "unable to write"]
     ELSE emplace_back([S EXCEPT !.fs = @ \cup {p}, !.data[p] = <<>>], p)

\* The child: it runs in the working directory, writes its outputs to
\* the files they are redirected to, and creates files.
child(S, c, ch) ==
  LET o == out_path(c.out, 1)
      e == out_path(c.err, 2)
  IN [S EXCEPT !.fs = @ \cup ch.creates,
               !.data = [f \in DOMAIN @ |->
                           IF f = o THEN ch.out
                           ELSE IF f = e THEN ch.err ELSE @[f]]]

RECURSIVE emplace_all(_, _)
\* for (const auto& p: c.cleanups) sp.cleanups.emplace_back (normalize (p)).
emplace_all(S, ps) ==
  IF ps = <<>> THEN S ELSE emplace_all(emplace_back(S, Head(ps)), Tail(ps))

\* Mutant of correct_status: the status is not required to be valid.
correct_status_mut(status, exit) ==
  status.some /\ ((status.v = exit.status) = (exit.comparison = "eq"))

\* bool correct_status of run: the child has a status, it is an unsigned
\* integer below 256, and its comparison with the expected one is as the
\* command expects.
correct_status(status, exit) ==
  LET valid_status == status.some /\ status.v >= 0 /\ status.v < 256
      eq == exit.comparison = "eq"
  IN valid_status /\ ((status.v = exit.status) = eq)

\* The mutant of run: the cleanups of the command are registered last,
\* once the exit status and the outputs are as expected.
run_mut(S, c, ch) ==
  LET S1 == open(open(S, c.out, 1), c.err, 2)
      S2 == child(S1, c, ch)
      S3 == IF correct_status(ch.status, c.exit) THEN S2
            ELSE [S2 EXCEPT !.err = "exit status"]
      S4 == check_output(check_output(S3, "stdout", out_path(c.out, 1), c.out),
                         "stderr", out_path(c.err, 2), c.err)
  IN IF S1.err # "" THEN S1
     ELSE IF S4.err # "" THEN S4
     ELSE emplace_all(S4, c.cleanups)

\* concurrent_runner::run.
run(S, c, ch) ==
  LET S1 == open(open(S, c.out, 1), c.err, 2)
      S2 == emplace_all(child(S1, c, ch), c.cleanups)
      S3 == IF correct_status(ch.status, c.exit) THEN S2
            ELSE [S2 EXCEPT !.err = "exit status"]
  IN IF S1.err # "" THEN S1
     ELSE check_output(check_output(S3, "stdout", out_path(c.out, 1), c.out),
                       "stderr", out_path(c.err, 2), c.err)

\* A redirect, and the redirect null.
redirect(t, s) == [type |-> t, str |-> s]

NullRedirect == redirect("null", <<>>)

\* optional<process::status_type>: no status after an abnormal
\* termination.
NoStatus == [some |-> FALSE, v |-> 0]

ExitStatus(v) == [some |-> TRUE, v |-> v]

NoCommand ==
  [out |-> NullRedirect, err |-> NullRedirect,
   exit |-> [comparison |-> "eq", status |-> 0], cleanups |-> <<>>]

NoChild == [status |-> ExitStatus(0), out |-> <<>>, err |-> <<>>, creates |-> {}]

\* No cleanup: the calls other than clean register none.
NoCleanup == [type |-> "none", path |-> "", implicit |-> FALSE]

\* A call of the runner ended in S.
Ran(what, reg, c, ch, S) ==
  /\ UNCHANGED rnOthers
  /\ wfs' = S.fs
  /\ wdata' = S.data
  /\ cleanups' = S.cleanups
  /\ removed' = S.removed
  /\ wlast' = [op |-> what, reg |-> reg, c |-> c, ch |-> ch, err |-> S.err,
               checks |-> S.checks]

RNEnter ==
  /\ wphase = "out"
  /\ Ran("enter", NoCleanup, NoCommand, NoChild, enter(runner_state))
  /\ wphase' = IF enter(runner_state).err # "" THEN "failed" ELSE "in"
  /\ UNCHANGED ncmds

\* A command is run in the scope entered: one of the commands of a
\* scope, or the command of a scope of a single command.
RNRun(c, ch) ==
  /\ \/ wphase = "in" /\ ncmds < MaxCmds
     \/ wphase = "single" /\ ncmds = 0
  /\ Ran("run", NoCleanup, c, ch, run(runner_state, c, ch))
  /\ wphase' = IF run(runner_state, c, ch).err # "" THEN "failed" ELSE wphase
  /\ ncmds' = ncmds + 1

\* A cleanup is registered by the script.
RNClean(c, implicit) ==
  /\ wphase = "in" /\ ncmds < MaxCmds
  /\ Ran("clean", [type |-> c.type, path |-> c.path, implicit |-> implicit],
         NoCommand, NoChild, clean(runner_state, c, implicit))
  /\ ncmds' = ncmds + 1
  /\ UNCHANGED wphase

RNLeave ==
  /\ wphase \in {"in", "single"}
  /\ Ran("leave", NoCleanup, NoCommand, NoChild, leave(runner_state))
  /\ wphase' = IF leave(runner_state).err # "" THEN "failed" ELSE "left"
  /\ UNCHANGED ncmds

NoData == [f \in OutFiles \cup OrigFiles |-> <<>>]

NoRun == [op |-> "none", reg |-> NoCleanup, c |-> NoCommand, ch |-> NoChild, err |-> "",
           checks |-> <<>>]

\* A test scope not entered yet: its working directory exists or does
\* not, empty or with a file left in it.
RNStart ==
  /\ wfs \in SUBSET {wd_path, "w/f", "x"}
  /\ "w/f" \in wfs => wd_path \in wfs
  /\ wdata = NoData
  /\ cleanups = <<>>
  /\ wphase = "out"
  /\ removed = <<>>
  /\ wlast = NoRun
  /\ ncmds = 0

\* The scope of a single command, entered.
RUStart ==
  /\ wfs = {wd_path}
  /\ wdata = NoData
  /\ cleanups = <<[type |-> "always", path |-> wd_path]>>
  /\ wphase = "single"
  /\ removed = <<>>
  /\ wlast = NoRun
  /\ ncmds = 0

RNIdle ==
  /\ wfs = {}
  /\ wdata = NoData
  /\ cleanups = <<>>
  /\ wphase = "left"
  /\ removed = <<>>
  /\ wlast = NoRun
  /\ ncmds = 0

\* The commands of the scopes whose cleanup is followed: they register
\* a path, their outputs are not checked, and the child creates files.
CleanCommands ==
  {[NoCommand EXCEPT !.cleanups = ps] :
     ps \in {<<>>, <<"w/f">>, <<"w/d/">>, <<wd_path>>, <<"x">>}}

CleanChildren == {[NoChild EXCEPT !.creates = fs] : fs \in SUBSET {"w/f", "w/d/"}}

RNNext ==
  \/ RNEnter
  \/ \E c \in CleanCommands, ch \in CleanChildren : RNRun(c, ch)
  \/ \E t \in CleanupTypes, p \in {wd_path, "w/f", "w/d/", "x"}, i \in BOOLEAN :
       RNClean([type |-> t, path |-> p], i)
  \/ RNLeave

\* The commands whose exit status and outputs are checked.
RunCommands ==
  {[out |-> o, err |-> e, exit |-> [comparison |-> k, status |-> s],
    cleanups |-> ps] :
     ps \in {<<>>, <<"w/f">>},
     o \in {NullRedirect, redirect("pass", <<>>), redirect("none", <<>>),
            redirect("here_string", <<"a">>), redirect("here_document", <<"a">>)},
     e \in {NullRedirect, redirect("none", <<>>), redirect("here_document", <<"a">>)},
     k \in {"eq", "ne"}, s \in {0, 255}}

RunChildren ==
  {[status |-> st, out |-> o, err |-> e, creates |-> {}] :
     st \in {NoStatus} \cup {ExitStatus(v) : v \in {-1, 0, 255, 256}},
     o \in Contents, e \in {<<>>, <<"a">>}}

RUNext ==
  \/ \E c \in RunCommands, ch \in RunChildren : RNRun(c, ch)
  \/ RNLeave

(***************************************************************************)
(* concurrent_runner::run for a command whose stdin is a here-string or    *)
(* here-document: the content is written to the pipe the child reads its   *)
(* stdin from, and the child is waited for.                                *)
(***************************************************************************)

\* Mutant of broken_pipe: a write to a pipe nobody reads from is no
\* error.
broken_pipe_mut(c) == FALSE

\* A write to the pipe throws io_error: the child has closed its stdin
\* or has exited.
broken_pipe(c) == c # "running"

\* os << content: a byte is written to the pipe when there is room for
\* it; the write fails when the pipe is broken, the stream is closed as
\* the exception leaves the block, and run is in the handler of
\* io_error.
PPWrite ==
  /\ rpc = "write" /\ towrite > 0
  /\ IF broken_pipe(cpc)
       THEN /\ rpc' = "catch"
            /\ wclosed' = TRUE
            /\ UNCHANGED <<pipe, towrite>>
       ELSE /\ pipe < PipeCap
            /\ pipe' = pipe + 1
            /\ towrite' = towrite - 1
            /\ UNCHANGED <<rpc, wclosed>>
  /\ UNCHANGED <<cpc, nread, nwant, ppOthers>>

\* os.close (): the content is written, and run goes on to pr.wait ().
PPClose ==
  /\ rpc = "write" /\ towrite = 0
  /\ rpc' = "wait"
  /\ wclosed' = TRUE
  /\ UNCHANGED <<cpc, pipe, towrite, nread, nwant, ppOthers>>

\* pr.wait () returns: the child has exited.
PPWait ==
  /\ rpc = "wait" /\ cpc = "exited"
  /\ rpc' = "done"
  /\ UNCHANGED <<cpc, pipe, towrite, nread, nwant, wclosed, ppOthers>>

\* pr.wait () of the handler of io_error returns, and run fails.
PPCatch ==
  /\ rpc = "catch" /\ cpc = "exited"
  /\ rpc' = "failed"
  /\ UNCHANGED <<cpc, pipe, towrite, nread, nwant, wclosed, ppOthers>>

\* The child reads a byte of its stdin.
CHRead ==
  /\ cpc = "running" /\ nread < nwant /\ pipe > 0
  /\ pipe' = pipe - 1
  /\ nread' = nread + 1
  /\ UNCHANGED <<rpc, cpc, towrite, nwant, wclosed, ppOthers>>

\* The child has read what it reads, or the end of its stdin, and
\* closes it: what is in the pipe is lost.
CHClose ==
  /\ cpc = "running"
  /\ nread = nwant \/ (pipe = 0 /\ wclosed)
  /\ cpc' = "closed"
  /\ pipe' = 0
  /\ UNCHANGED <<rpc, towrite, nread, nwant, wclosed, ppOthers>>

\* The child exits.
CHExit ==
  /\ cpc = "closed"
  /\ cpc' = "exited"
  /\ UNCHANGED <<rpc, pipe, towrite, nread, nwant, wclosed, ppOthers>>

\* The process is started and the streams of run are closed: the
\* content is to be written, and the child reads some of its stdin, all
\* of it, or none.
PPStart ==
  /\ rpc = "write"
  /\ cpc = "running"
  /\ pipe = 0
  /\ towrite \in 1..MaxContent
  /\ nread = 0
  /\ nwant \in 0..(MaxContent + 1)
  /\ wclosed = FALSE

PPIdle ==
  /\ rpc = "done"
  /\ cpc = "exited"
  /\ pipe = 0
  /\ towrite = 0
  /\ nread = 0
  /\ nwant = 0
  /\ wclosed = TRUE

Runner == PPWrite \/ PPClose \/ PPWait \/ PPCatch

Child == CHRead \/ CHClose \/ CHExit

PPNext ==
  \/ PPWrite
  \/ PPClose
  \/ PPWait
  \/ PPCatch
  \/ CHRead
  \/ CHClose
  \/ CHExit

(***************************************************************************)
(* target::find_original of src/build2/target.cxx.                         *)
(***************************************************************************)

\* lookup (): nothing found.
NoLookup == [value |-> "", vars |-> "none"]

\* lookup (p, &vars): the value found and the variable map it is in.
lookup(p, vm) == [value |-> p, vars |-> vm]

\* bool (lookup): the lookup is defined.
defined(l) == l.vars # "none"

RECURSIVE scope_find_original(_, _)
\* scope::find_original, from the scope i of the chain sv on: the value
\* of the first scope that has one, and the number of scopes looked at;
\* the depth of a lookup that finds nothing is 0.
scope_find_original(sv, i) ==
  IF i > Len(sv) THEN <<NoLookup, 0>>
  ELSE IF sv[i] # "" THEN <<lookup(sv[i], "scope"), i>>
  ELSE scope_find_original(sv, i + 1)

\* Mutant of find_original: the depth is not incremented for the group.
find_original_mut(tv, grp, gv, sv) ==
  IF tv # "" THEN <<lookup(tv, "target"), 1>>
  ELSE IF grp /\ gv # "" THEN <<lookup(gv, "group"), 1>>
  ELSE LET p == scope_find_original(sv, 1)
       IN <<p[1], IF defined(p[1]) THEN 2 + p[2] ELSE p[2]>>

\* target::find_original: the pair r of the lookup and the depth.
find_original(tv, grp, gv, sv) ==
  LET r1 == <<IF tv # "" THEN lookup(tv, "target") ELSE NoLookup, 1>>
      r2 == IF defined(r1[1]) THEN r1
            ELSE <<IF grp /\ gv # "" THEN lookup(gv, "group") ELSE NoLookup,
                   r1[2] + 1>>
  IN IF defined(r2[1]) THEN r2
     ELSE LET p == scope_find_original(sv, 1)
          IN <<p[1], IF defined(p[1]) THEN r2[2] + p[2] ELSE p[2]>>

NoFind == [op |-> "none", first |-> NoLookup, second |-> 0]

FDFindOriginal ==
  /\ flast.op = "none"
  /\ flast' = [op |-> "find_original",
               first |-> find_original(tvars, hasgroup, gvars, svars)[1],
               second |-> find_original(tvars, hasgroup, gvars, svars)[2]]
  /\ UNCHANGED <<tvars, hasgroup, gvars, svars, fdOthers>>

\* The chains of scopes: in each scope the variable has a value of its
\* own or none.
ScopeChains ==
  UNION {[1..n -> {"", "scope"}] : n \in 1..MaxScopes}

\* A target, in a group or not, and the scopes around it; the variable
\* has a value of its own in each place, or none.
FDStart ==
  /\ tvars \in {"", "target"}
  /\ hasgroup \in BOOLEAN
  /\ gvars \in {"", "group"}
  /\ ~hasgroup => gvars = ""
  /\ svars \in ScopeChains
  /\ flast = NoFind

FDIdle ==
  /\ tvars = ""
  /\ hasgroup = FALSE
  /\ gvars = ""
  /\ svars = <<"">>
  /\ flast = [NoFind EXCEPT !.op = "idle"]

FDNext == FDFindOriginal

(***************************************************************************)
(* dir_rule and fsdir_rule of src/build/rule.cxx: match and apply.         *)
(***************************************************************************)

\* The operation table: default, update and clean, and the operations
\* the modules register (test of src/build/test/operation.cxx, install).
Operations == {"default", "update", "clean", "test", "install"}

\* The actions a target is matched for.
RuleActions ==
  {[meta |-> mo, outer |-> "none", inner |-> o] :
     mo \in {"perform", "configure"}, o \in Operations}

\* The directories of the targets: the root, a/, a/b/, a/c/ and d/.
TargetDirs == {<<>>, <<"a">>, <<"a", "b">>, <<"a", "c">>, <<"d">>}

\* dir_rule::match and fsdir_rule::match: return &t, for any action.
dir_rule_match(a, t) == TRUE

\* search_and_match (a, t): every prerequisite is searched and matched.
search_and_match(ps) == ps

\* search_and_match (a, t, d): the prerequisites that are not in d or in
\* a subdirectory of it are ignored.
search_and_match_in(ps, d) == SelectSeq(ps, LAMBDA p : dir_sub(p, d))

\* dir_path::directory: the parent directory.
directory(d) == SubSeq(d, 1, Len(d) - 1)

\* inject_parent_fsdir: the fsdir{} of the parent directory is matched
\* and made the first prerequisite target.
inject_parent_fsdir(d) == IF d = <<>> THEN <<>> ELSE <<directory(d)>>

\* Mutant of operation_handled: there is no case for clean.
operation_handled_mut(a) == a.inner \in {"default", "update"}

\* switch (a.operation ()) of apply has a case for the operation: the
\* default branch, assert (false), is not reached.
operation_handled(a) == a.inner \in {"default", "update", "clean"}

\* Mutant of dir_rule_apply: every prerequisite is matched for clean too.
dir_rule_apply_mut(a, d, ps) ==
  [recipe |-> "default", matched |-> search_and_match(ps),
   asserted |-> ~operation_handled(a)]

\* dir_rule::apply: the recipe returned, the prerequisite targets
\* matched, and whether assert (false) was reached.
dir_rule_apply(a, d, ps) ==
  [recipe |-> "default",
   matched |-> CASE a.inner \in {"default", "update"} -> search_and_match(ps)
                 [] a.inner = "clean" -> search_and_match_in(ps, d)
                 [] OTHER -> <<>>,
   asserted |-> ~operation_handled(a)]

\* fsdir_rule::apply.
fsdir_apply(a, d, ps) ==
  [recipe |-> fsdir_rule_apply(a),
   matched |-> inject_parent_fsdir(d) \o
               (CASE a.inner \in {"default", "update"} -> search_and_match(ps)
                  [] a.inner = "clean" ->
                       search_and_match_in(ps, IF d = <<>> THEN d ELSE directory(d))
                  [] OTHER -> <<>>),
   asserted |-> ~operation_handled(a)]

NoApply == [op |-> "none", recipe |-> "empty", matched |-> <<>>,
            asserted |-> FALSE]

\* The rule is matched and, the target claimed, applied. An assert
\* (false) that is reached aborts, unless the assertions are compiled
\* out: then apply goes on and returns.
DRApply(ndbg) ==
  /\ dlast.op = "none"
  /\ dir_rule_match(daction, ddir)
  /\ LET r == IF drule = "dir" THEN dir_rule_apply(daction, ddir, dpre)
                               ELSE fsdir_apply(daction, ddir, dpre)
     IN dlast' = IF r.asserted /\ ~ndbg
                   THEN [op |-> "abort", recipe |-> "empty",
                         matched |-> r.matched, asserted |-> TRUE]
                   ELSE [op |-> "apply", recipe |-> r.recipe,
                         matched |-> r.matched, asserted |-> r.asserted]
  /\ UNCHANGED <<drule, daction, ddir, dpre, drOthers>>

\* The lists of prerequisites.
PrereqLists == UNION {[1..n -> TargetDirs] : n \in 0..MaxPrereqs}

DRStart ==
  /\ drule \in {"dir", "fsdir"}
  /\ daction \in RuleActions
  /\ ddir \in {<<>>, <<"a">>, <<"a", "b">>}
  /\ dpre \in PrereqLists
  /\ dlast = NoApply

DRIdle ==
  /\ drule = "dir"
  /\ daction = [meta |-> "perform", outer |-> "none", inner |-> "default"]
  /\ ddir = <<>>
  /\ dpre = <<>>
  /\ dlast = [NoApply EXCEPT !.op = "idle"]

DRNext == \E ndbg \in BOOLEAN : DRApply(ndbg)

(***************************************************************************)
(* bash::in_rule and bash::install_rule: the for_install flag and the      *)
(* substitution of imports.                                                *)
(***************************************************************************)
\* The actions install_rule is applied for: install, and the update that
\* precedes it.
InstallActions ==
  {[meta |-> "perform", outer |-> "none", inner |-> "install"],
   [meta |-> "perform", outer |-> "install", inner |-> "update"]}

\* An import name as written: absolute or not, its components and the
\* extension of the last one ("" if none). No components: the empty name.
ImportNames ==
  {[abs |-> FALSE, comps |-> <<>>, ext |-> ""],
   [abs |-> TRUE, comps |-> <<"m">>, ext |-> ""],
   [abs |-> FALSE, comps |-> <<"m">>, ext |-> ""],
   [abs |-> FALSE, comps |-> <<"x", "m">>, ext |-> "bash"],
   [abs |-> FALSE, comps |-> <<"q">>, ext |-> "sh"]}

\* A prerequisite target: skipped ones (null or ad hoc), its type, the
\* path assigned to it, the length of the import path it was found
\* installed under (0 if it was not), and the root of its project (Null if
\* it is in none).
BashPt(skip, type, comps, ext, data, root) ==
  [skip |-> skip, type |-> type, comps |-> comps, ext |-> ext,
   data |-> data, root |-> root]

BashPrereqs ==
  {<<>>,
   <<BashPt(FALSE, "bash", <<"usr", "bin", "m">>, "bash", 1, Null)>>,
   <<BashPt(TRUE, "bash", <<"p", "m">>, "bash", 0, <<"p">>),
     BashPt(FALSE, "file", <<"p", "m">>, "bash", 0, <<"p">>),
     BashPt(FALSE, "bash", <<"p", "x", "m">>, "bash", 0, <<"p">>)>>,
   <<BashPt(FALSE, "bash", <<"p", "y", "x", "m">>, "bash", 0, <<"p">>),
     BashPt(FALSE, "bash", <<"p", "m">>, "bash", 0, <<"p">>)>>,
   <<BashPt(FALSE, "bash", <<"usr", "x", "m">>, "bash", 1, Null),
     BashPt(FALSE, "bash", <<"o", "m">>, "bash", 0, Null)>>}

\* path::sup: ip is a tail of pp.
path_sup(pp, ip) ==
  /\ pp.ext = ip.ext
  /\ Len(ip.comps) <= Len(pp.comps)
  /\ SubSeq(pp.comps, Len(pp.comps) - Len(ip.comps) + 1, Len(pp.comps))
       = ip.comps

\* The last n components of pp.
path_tail(pp, n) ==
  IF n >= Len(pp.comps) THEN pp.comps
  ELSE SubSeq(pp.comps, Len(pp.comps) - n + 1, Len(pp.comps))

\* The prerequisite of substitute_import's loop at i: "skip" to go on to
\* the next one, "found", "assert" for a path that was not assigned and
\* "fail" for a target that is out of any project and not imported.
import_candidate(pt, ip) ==
  IF pt.skip \/ pt.type # "bash" THEN "skip"
  ELSE IF pt.comps = <<>> THEN "assert"
  ELSE IF ~path_sup(pt, ip) THEN "skip"
  ELSE IF pt.data # 0
    THEN (IF path_tail(pt, pt.data) = ip.comps THEN "found" ELSE "skip")
  ELSE IF pt.root # Null
    THEN (IF dir_sub(pt.comps, pt.root)
             /\ SubSeq(pt.comps, Len(pt.root) + 1, Len(pt.comps)) = ip.comps
          THEN "found" ELSE "skip")
  ELSE "fail"

\* What substitute_import comes to: the failure, the assertion that does
\* not hold ("path" or "for_install") and the text put for the import.
NoSubst == [fail |-> "", asserted |-> "", text |-> <<>>]

\* in_rule::substitute_import for the import name n in a target of type
\* k; u is what is read from for_install when it holds no value and the
\* assertions are compiled out.
substitute_import(k, off, fi, pts, n, u) ==
  LET ip == [comps |-> n.comps,
             ext |-> IF n.ext = "" THEN "bash" ELSE n.ext]
      cs == [i \in 1..Len(pts) |-> import_candidate(pts[i], ip)]
      stop == {i \in 1..Len(pts) : cs[i] # "skip"}
      at == IF stop = {} THEN 0
            ELSE CHOOSE i \in stop : \A j \in stop : i <= j
      ap == pts[at]
      o == [i \in 1..off |-> "../"]
      flag == IF fi = "none" THEN u ELSE fi = "true"
  IN
  IF n.comps = <<>> \/ n.abs
    THEN [NoSubst EXCEPT !.fail = "invalid import path"]
  ELSE IF at # 0 /\ cs[at] = "assert"
    THEN [NoSubst EXCEPT !.asserted = "path"]
  ELSE IF at # 0 /\ cs[at] = "fail"
    THEN [NoSubst EXCEPT !.fail = "is out of project nor imported"]
  ELSE IF at = 0
    THEN [NoSubst EXCEPT !.fail = "unable to resolve import path"]
  ELSE [fail |-> "", asserted |-> IF fi = "none" THEN "for_install" ELSE "",
        text |->
          IF flag
            THEN IF k = "exe"
              THEN <<"source \"$(dirname", " \"$(readlink -f",
                     " \"${BASH_SOURCE[0]}\")\")/">>
                   \o ip.comps \o <<".", ip.ext, "\"">>
              ELSE <<"source \"$(dirname", " \"${BASH_SOURCE[0]}\")/">>
                   \o o \o ip.comps \o <<".", ip.ext, "\"">>
          ELSE <<"source ">> \o ap.comps \o <<".", ap.ext>>]

\* The mutant of in_rule::perform_update: the flag is left as it is.
in_rule_perform_update_mut(fi) == fi

\* in_rule::perform_update: unless the flag is set, not for install.
in_rule_perform_update(fi) == IF fi = "none" THEN "false" ELSE fi

\* The mutant of install_rule::apply: the flag is set whatever it holds.
install_rule_apply_mut(a, fi) ==
  [fail |-> "", for_install |-> IF a.inner = "update" THEN "true" ELSE fi]

\* install_rule::apply: for the update operation the flag is set, and a
\* target that was updated not for install is an error.
install_rule_apply(a, fi) ==
  IF a.inner = "update"
    THEN IF fi # "none"
      THEN [fail |-> IF fi = "false"
                       THEN "already updated but not for install" ELSE "",
            for_install |-> fi]
      ELSE [fail |-> "", for_install |-> "true"]
  ELSE [fail |-> "", for_install |-> fi]

NoBash == [op |-> "none", a |-> "none", before |-> "none", fail |-> "",
           asserted |-> "", subst |-> <<>>, name |-> <<>>]

\* in_rule::apply: the target is matched and gets fresh match data.
BSMatch ==
  /\ bstate # "failed"
  /\ bcalls < MaxBashCalls
  /\ for_install' = "none"
  /\ bstate' = "matched"
  /\ bcalls' = bcalls + 1
  /\ blog' = [NoBash EXCEPT !.op = "match", !.before = for_install]
  /\ UNCHANGED <<bkind, boff, bpts, bsOthers>>

\* install_rule::apply for the action a.
BSInstallApply(a) ==
  /\ bstate # "failed"
  /\ bcalls < MaxBashCalls
  /\ LET r == install_rule_apply(a, for_install) IN
       /\ for_install' = r.for_install
       /\ bstate' = IF r.fail # "" THEN "failed" ELSE bstate
       /\ blog' = [NoBash EXCEPT !.op = "install_apply", !.a = a.inner,
                                 !.before = for_install, !.fail = r.fail]
  /\ bcalls' = bcalls + 1
  /\ UNCHANGED <<bkind, boff, bpts, bsOthers>>

\* in_rule::perform_update, once for a match: the flag, and then
\* in::rule::perform_update, which has substitute_import called for the
\* import n of the .in file, if there is one.
BSPerformUpdate(n, some, ndbg, u) ==
  /\ bstate = "matched"
  /\ bcalls < MaxBashCalls
  /\ LET fi == in_rule_perform_update(for_install)
         r == IF some THEN substitute_import(bkind, boff, fi, bpts, n, u)
              ELSE NoSubst
         down == r.asserted # "" /\ ~ndbg
     IN
       /\ for_install' = fi
       /\ bstate' = IF r.fail # "" \/ down THEN "failed" ELSE "updated"
       /\ blog' = [op |-> "perform_update",
                   a |-> IF some THEN "import" ELSE "none",
                   before |-> for_install, fail |-> r.fail,
                   asserted |-> r.asserted,
                   subst |-> IF down THEN <<>> ELSE r.text,
                   name |-> IF some THEN n.comps ELSE <<>>]
  /\ bcalls' = bcalls + 1
  /\ UNCHANGED <<bkind, boff, bpts, bsOthers>>

\* A target that in_rule::apply has just been called for.
BSStart ==
  /\ bkind \in {"exe", "bash"}
  /\ boff \in 0..2
  /\ bpts \in BashPrereqs
  /\ for_install = "none"
  /\ bstate = "matched"
  /\ bcalls = 0
  /\ blog = [NoBash EXCEPT !.op = "match"]

BSIdle ==
  /\ bkind = "exe"
  /\ boff = 0
  /\ bpts = <<>>
  /\ for_install = "none"
  /\ bstate = "failed"
  /\ bcalls = 0
  /\ blog = NoBash

BSNext ==
  \/ BSMatch
  \/ \E a \in InstallActions : BSInstallApply(a)
  \/ \E n \in ImportNames, some, ndbg, u \in BOOLEAN :
       BSPerformUpdate(n, some, ndbg, u)

(***************************************************************************)
(* bash::in_rule::search: the import of an installed module by several    *)
(* threads.                                                                *)
(***************************************************************************)
Threads == 1..NumThreads

\* A target of the set that is not there yet; mset and pset are the
\* threads that have assigned its mtime and its path, in order.
NoTarget == [present |-> FALSE, mtime |-> 0, path |-> 0,
             mset |-> <<>>, pset |-> <<>>]

\* The loop over PATH: the first directory in which file_mtime finds the
\* module, 0 if there is none.
path_search(fs) ==
  IF \A i \in 1..NumPath : fs[i] = 0 THEN 0
  ELSE CHOOSE i \in 1..NumPath : fs[i] # 0 /\ \A j \in 1..(i - 1) : fs[j] = 0

\* target_set::insert_locked for the key k: the target is created unless
\* it is there, and the caller that has created it is the one that gets
\* the lock.
insert_locked(ts, k) ==
  [targets |-> IF ts[k].present THEN ts
               ELSE [ts EXCEPT ![k] = [NoTarget EXCEPT !.present = TRUE]],
   inserted |-> ~ts[k].present]

\* The mutant of the test of rp.second.owns_lock (): every thread assigns.
first_insertion_mut(owns) == TRUE

\* Only set mtime/path on first insertion.
first_insertion(owns) == owns

\* The start of search up to the call of file_mtime that finds the
\* module, or to the return of nullptr: for another action than
\* perform_update, and for a module that is in no directory of PATH.
SRScan(t) ==
  /\ spc[t] = "start"
  /\ LET i == path_search(sfs) IN
       IF saction # "update" \/ i = 0
         THEN /\ spc' = [spc EXCEPT ![t] = "returned"]
              /\ UNCHANGED sfound
         ELSE /\ spc' = [spc EXCEPT ![t] = "found"]
              /\ sfound' = [sfound EXCEPT ![t] = i]
  /\ UNCHANGED <<sfs, saction, sowns, slock, stargets, sret, srOthers>>

\* The call of insert_locked, which waits while the lock of the set is
\* held.
SRInsert(t) ==
  /\ spc[t] = "found"
  /\ slock = 0
  /\ LET r == insert_locked(stargets, sfound[t]) IN
       /\ stargets' = r.targets
       /\ sowns' = [sowns EXCEPT ![t] = r.inserted]
       /\ slock' = IF r.inserted THEN t ELSE 0
  /\ spc' = [spc EXCEPT ![t] = "inserted"]
  /\ UNCHANGED <<sfs, saction, sfound, sret, srOthers>>

\* pt.mtime (mt).
SRMtime(t) ==
  /\ spc[t] = "inserted"
  /\ first_insertion(sowns[t])
  /\ stargets' = [stargets EXCEPT
                    ![sfound[t]].mtime = sfs[sfound[t]],
                    ![sfound[t]].mset = Append(@, t)]
  /\ spc' = [spc EXCEPT ![t] = "mtime"]
  /\ UNCHANGED <<sfs, saction, sfound, sowns, slock, sret, srOthers>>

\* pt.path (move (ap)).
SRPath(t) ==
  /\ spc[t] = "mtime"
  /\ stargets' = [stargets EXCEPT
                    ![sfound[t]].path = sfound[t],
                    ![sfound[t]].pset = Append(@, t)]
  /\ spc' = [spc EXCEPT ![t] = "path"]
  /\ UNCHANGED <<sfs, saction, sfound, sowns, slock, sret, srOthers>>

\* The return of the target; rp goes out of scope and with it the lock.
SRReturn(t) ==
  /\ \/ spc[t] = "path"
     \/ spc[t] = "inserted" /\ ~first_insertion(sowns[t])
  /\ sret' = [sret EXCEPT ![t] = sfound[t]]
  /\ slock' = IF slock = t THEN 0 ELSE slock
  /\ spc' = [spc EXCEPT ![t] = "returned"]
  /\ UNCHANGED <<sfs, saction, sfound, sowns, stargets, srOthers>>

SRStart ==
  /\ sfs \in [1..NumPath -> 0..2]
  /\ saction \in {"update", "clean"}
  /\ spc = [t \in Threads |-> "start"]
  /\ sfound = [t \in Threads |-> 0]
  /\ sowns = [t \in Threads |-> FALSE]
  /\ slock = 0
  /\ stargets = [k \in 1..NumPath |-> NoTarget]
  /\ sret = [t \in Threads |-> 0]

SRIdle ==
  /\ sfs = [i \in 1..NumPath |-> 0]
  /\ saction = "clean"
  /\ spc = [t \in Threads |-> "returned"]
  /\ sfound = [t \in Threads |-> 0]
  /\ sowns = [t \in Threads |-> FALSE]
  /\ slock = 0
  /\ stargets = [k \in 1..NumPath |-> NoTarget]
  /\ sret = [t \in Threads |-> 0]

SRNext ==
  \E t \in Threads :
    \/ SRScan(t)
    \/ SRInsert(t)
    \/ SRMtime(t)
    \/ SRPath(t)
    \/ SRReturn(t)

(***************************************************************************)
(* create_bootstrap_outer, call by call, for any value of amalgamation.    *)
(***************************************************************************)
\* The out directories of the projects: o/, o/p/, o/q/ and o/p/r/.
ProjectDirs == {<<"o">>, <<"o", "p">>, <<"o", "q">>, <<"o", "p", "r">>}

\* The values of amalgamation: none, the parent, the directory itself,
\* the parent's parent, the sibling q/ and the subdirectory p/.
Amalgamations ==
  {Null, <<"..">>, <<".">>, <<"..", "..">>, <<"..", "q">>, <<"p">>}

RECURSIVE normalize(_, _)
\* dir_path operator/ and normalize (): the components of e applied to d,
\* Null for the invalid path that .. of the root directory is.
normalize(d, e) ==
  IF e = <<>> THEN d
  ELSE IF Head(e) = "." THEN normalize(d, Tail(e))
  ELSE IF Head(e) = ".."
    THEN (IF d = <<>> THEN Null
          ELSE normalize(SubSeq(d, 1, Len(d) - 1), Tail(e)))
  ELSE normalize(Append(d, Head(e)), Tail(e))

\* root.vars["amalgamation"] once bootstrap.build has been sourced.
amalgamation(tree, root) ==
  IF root \in DOMAIN tree THEN tree[root] ELSE Null

\* The mutant of amalgamated_root: the enclosing project is the project.
amalgamated_root_mut(root, d) == root

\* out_root of the enclosing project: root.path () / d, normalized.
amalgamated_root(root, d) == normalize(root, d)

\* One call of create_bootstrap_outer, up to its return or to the call
\* of itself for the enclosing project.
OBCall ==
  /\ ostate = "running"
  /\ LET d == amalgamation(otree, ocur)
         out_root == amalgamated_root(ocur, d)
     IN IF d = Null
          THEN /\ ostate' = "returned"
               /\ UNCHANGED <<ocur, odepth>>
        ELSE IF out_root = Null \/ out_root \in omis
          THEN /\ ostate' = "failed"
               /\ UNCHANGED <<ocur, odepth>>
        ELSE /\ ocur' = out_root
             /\ odepth' = IF odepth < MaxOuterDepth THEN odepth + 1
                          ELSE odepth
             /\ UNCHANGED ostate
  /\ UNCHANGED <<otree, omis, ostart, obOthers>>

OBStart ==
  /\ otree \in [ProjectDirs -> Amalgamations]
  /\ omis \in {{}, {<<"o">>}}
  /\ ostart \in ProjectDirs
  /\ ocur = ostart
  /\ odepth = 1
  /\ ostate = "running"

OBIdle ==
  /\ otree = [d \in ProjectDirs |-> Null]
  /\ omis = {}
  /\ ostart = <<"o">>
  /\ ocur = <<"o">>
  /\ odepth = 0
  /\ ostate = "returned"

OBNext == OBCall

(***************************************************************************)
(* config::create_project of src/libbuild2/config/utility.cxx. A file is   *)
(* the sequence of its lines, a line the sequence of the strings written   *)
(* to it, and a module name the sequence of its characters.                *)
(***************************************************************************)
\* A line with the text s; the text may be empty.
text_line(s) == IF s = "" THEN <<>> ELSE <<s>>

\* hdr, written by who, and the end of line after it.
hdr(who) ==
  <<<<"# Generated by ", who, ". Edit if you know what you are doing.">>,
    <<"#">>>>

\* The using directive of root.build for the module cm: optional if the
\* name starts with ?, and .config is appended unless the name ends with
\* a dot, which is stripped.
using_line(cm) ==
  LET opt == Head(cm) = "?"
      m == IF opt THEN Tail(cm) ELSE cm
  IN <<"using", IF opt THEN "?" ELSE "", " ">>
       \o (IF m[Len(m)] = "." THEN SubSeq(m, 1, Len(m) - 1)
           ELSE Append(m, ".config"))

\* build/bootstrap.build.
bootstrap_build(a) ==
  hdr("b") \o <<<<"project =">>>>
    \o (IF a.amal = Null THEN <<>>
        ELSE IF a.amal = <<>> THEN <<<<"amalgamation =">>>>
        ELSE <<<<"amalgamation =", " ">> \o a.amal>>)
    \o <<<<>>>>
    \o (IF a.config THEN <<<<"using config">>>> ELSE <<>>)
    \o [i \in 1..Len(SelectSeq(a.bmod, LAMBDA x : ~a.config \/ x # "config")) |->
          <<"using ", SelectSeq(a.bmod, LAMBDA x : ~a.config \/ x # "config")[i]>>]

\* The mutant of root_build: the using directives come first.
root_build_mut(a) ==
  hdr("b")
    \o [i \in 1..Len(a.rmod) |-> using_line(a.rmod[i])]
    \o (IF a.rpre # "" THEN <<text_line(a.rpre), <<>>>> ELSE <<>>)
    \o (IF a.rpos # "" THEN <<<<>>, text_line(a.rpre)>> ELSE <<>>)

\* build/root.build.
root_build(a) ==
  hdr("b")
    \o (IF a.rpre # "" THEN <<text_line(a.rpre), <<>>>> ELSE <<>>)
    \o [i \in 1..Len(a.rmod) |-> using_line(a.rmod[i])]
    \o (IF a.rpos # "" THEN <<<<>>, text_line(a.rpre)>> ELSE <<>>)

NoFiles == [f \in {"bootstrap.build", "root.build", "buildfile"} |-> Null]

\* create_project: the directory is created unless it is there, and has
\* to be empty; then the files are written.
create_project(a, d) ==
  IF d = "full"
    THEN [err |-> "exists and is not empty", dir |-> d, files |-> NoFiles]
  ELSE [err |-> "", dir |-> "full",
        files |->
          [NoFiles EXCEPT
             !["bootstrap.build"] = bootstrap_build(a),
             !["root.build"] = root_build(a),
             !["buildfile"] =
               IF a.buildfile THEN Append(hdr("b"), <<"./: {*/ -build/}">>)
               ELSE Null]]

CPCreate ==
  /\ cerr = "none"
  /\ LET r == create_project(cargs, cdir) IN
       /\ cerr' = r.err
       /\ cdir' = r.dir
       /\ cfiles' = r.files
  /\ UNCHANGED <<cargs, cpOthers>>

\* The names of the modules of rmod.
ModuleNames == {<<"c">>, <<"?", "c">>, <<"i", ".">>, <<"?", "i", ".">>}

ModuleLists ==
  UNION {[1..n -> ModuleNames] : n \in 0..MaxMods}

CPStart ==
  /\ cargs \in [amal : {Null, <<>>, <<"..">>},
                bmod : {<<>>, <<"config", "dist">>},
                rpre : {"", "pre"},
                rmod : ModuleLists,
                rpos : {"", "post"},
                config : BOOLEAN,
                buildfile : BOOLEAN]
  /\ cdir \in {"absent", "empty", "full"}
  /\ cfiles = NoFiles
  /\ cerr = "none"

CPIdle ==
  /\ cargs = [amal |-> Null, bmod |-> <<>>, rpre |-> "", rmod |-> <<>>,
              rpos |-> "", config |-> FALSE, buildfile |-> FALSE]
  /\ cdir = "full"
  /\ cfiles = NoFiles
  /\ cerr = ""

CPNext == CPCreate

(***************************************************************************)
(* Specifications.                                                         *)
(***************************************************************************)

TSInit == TSIdle /\ RCIdle /\ EXIdle /\ MTIdle /\ OPIdle /\ BTIdle /\ RNIdle /\ PPIdle /\ FDIdle /\ DRIdle /\ BSIdle /\ SRIdle /\ OBIdle /\ CPIdle

SpecTargetSet == TSInit /\ [][TSNext]_vars

RCInit == RCIdle /\ TSIdle /\ EXIdle /\ MTIdle /\ OPIdle /\ BTIdle /\ RNIdle /\ PPIdle /\ FDIdle /\ DRIdle /\ BSIdle /\ SRIdle /\ OBIdle /\ CPIdle

SpecRecipe == RCInit /\ [][RCNext]_vars

EXInit == EXStart /\ TSIdle /\ RCIdle /\ MTIdle /\ OPIdle /\ BTIdle /\ RNIdle /\ PPIdle /\ FDIdle /\ DRIdle /\ BSIdle /\ SRIdle /\ OBIdle /\ CPIdle

SpecExec == EXInit /\ [][EXNext]_vars

MTInit == MTStart /\ TSIdle /\ RCIdle /\ EXIdle /\ OPIdle /\ BTIdle /\ RNIdle /\ PPIdle /\ FDIdle /\ DRIdle /\ BSIdle /\ SRIdle /\ OBIdle /\ CPIdle

SpecMatch == MTInit /\ [][MTNext]_vars

OPInit == OPStart /\ TSIdle /\ RCIdle /\ MTIdle /\ BTIdle /\ RNIdle /\ PPIdle /\ FDIdle /\ DRIdle /\ BSIdle /\ SRIdle /\ OBIdle /\ CPIdle

SpecOps == OPInit /\ [][OPNext]_vars

BTInit == BTStart /\ TSIdle /\ RCIdle /\ EXIdle /\ MTIdle /\ OPIdle /\ RNIdle /\ PPIdle /\ FDIdle /\ DRIdle /\ BSIdle /\ SRIdle /\ OBIdle /\ CPIdle

SpecBoot == BTInit /\ [][BTNext]_vars

LDInit == LDStart /\ TSIdle /\ RCIdle /\ EXIdle /\ MTIdle /\ OPIdle /\ RNIdle /\ PPIdle /\ FDIdle /\ DRIdle /\ BSIdle /\ SRIdle /\ OBIdle /\ CPIdle

SpecLoad == LDInit /\ [][LDNext]_vars

RNInit == RNStart /\ TSIdle /\ RCIdle /\ EXIdle /\ MTIdle /\ OPIdle /\ BTIdle /\ PPIdle /\ FDIdle /\ DRIdle /\ BSIdle /\ SRIdle /\ OBIdle /\ CPIdle

SpecClean == RNInit /\ [][RNNext]_vars

RUInit == RUStart /\ TSIdle /\ RCIdle /\ EXIdle /\ MTIdle /\ OPIdle /\ BTIdle /\ PPIdle /\ FDIdle /\ DRIdle /\ BSIdle /\ SRIdle /\ OBIdle /\ CPIdle

SpecRun == RUInit /\ [][RUNext]_vars

PPInit == PPStart /\ TSIdle /\ RCIdle /\ EXIdle /\ MTIdle /\ OPIdle /\ BTIdle /\ RNIdle /\ FDIdle /\ DRIdle /\ BSIdle /\ SRIdle /\ OBIdle /\ CPIdle

FDInit == FDStart /\ TSIdle /\ RCIdle /\ EXIdle /\ MTIdle /\ OPIdle /\ BTIdle /\ RNIdle /\ PPIdle /\ DRIdle /\ BSIdle /\ SRIdle /\ OBIdle /\ CPIdle

SpecLookup == FDInit /\ [][FDNext]_vars

DRInit == DRStart /\ TSIdle /\ RCIdle /\ EXIdle /\ MTIdle /\ OPIdle /\ BTIdle /\ RNIdle /\ PPIdle /\ FDIdle /\ BSIdle /\ SRIdle /\ OBIdle /\ CPIdle

SpecDirRule == DRInit /\ [][DRNext]_vars

BSInit == BSStart /\ TSIdle /\ RCIdle /\ EXIdle /\ MTIdle /\ OPIdle /\ BTIdle /\ RNIdle /\ PPIdle /\ FDIdle /\ DRIdle /\ SRIdle /\ OBIdle /\ CPIdle

SpecBash == BSInit /\ [][BSNext]_vars

SRInit == SRStart /\ TSIdle /\ RCIdle /\ EXIdle /\ MTIdle /\ OPIdle /\ BTIdle /\ RNIdle /\ PPIdle /\ FDIdle /\ DRIdle /\ BSIdle /\ OBIdle /\ CPIdle

SpecSearch == SRInit /\ [][SRNext]_vars

OBInit == OBStart /\ TSIdle /\ RCIdle /\ EXIdle /\ MTIdle /\ OPIdle /\ BTIdle /\ RNIdle /\ PPIdle /\ FDIdle /\ DRIdle /\ BSIdle /\ SRIdle /\ CPIdle

\* A call that has been made goes on.
SpecOuter == OBInit /\ [][OBNext]_vars /\ WF_vars(OBCall)

CPInit == CPStart /\ TSIdle /\ RCIdle /\ EXIdle /\ MTIdle /\ OPIdle /\ BTIdle /\ RNIdle /\ PPIdle /\ FDIdle /\ DRIdle /\ BSIdle /\ SRIdle /\ OBIdle

SpecCreate == CPInit /\ [][CPNext]_vars

\* run and the child are two processes, and each one goes on when it can.
SpecPipe ==
  PPInit /\ [][PPNext]_vars /\ WF_vars(Runner) /\ WF_vars(Child)

\* C1 as stated: of two insert calls with the same key the later one returns
\* the target the first one returned, the inserted flag was true for the
\* first and is false for the later one.
C1_SameKeySameTargetOnce ==
  (last.op = "insert" /\ ~last.isfirst) =>
    /\ last.obj = FirstOf(last.key).obj
    /\ FirstOf(last.key).inserted
    /\ ~last.inserted

\* C1 as amended: of two insert calls with the same key the later one
\* returns inserted = false, and when the key's extension is specified it
\* returns the target the first one returned.
C1_Interning ==
  (last.op = "insert" /\ ~last.isfirst) =>
    /\ ~last.inserted
    /\ (last.key.ext # Unspecified => last.obj = FirstOf(last.key).obj)

C1_Witness ==
  /\ last.op = "insert" /\ ~last.isfirst /\ last.key.ext # Unspecified
  /\ FirstOf(last.key).inserted
  /\ Len(map_) >= 2

\* C2: a find or insert call changes the extension stored on a target only
\* from unspecified to a specified value.
C2_ExtMonotonic ==
  [][\A i \in DOMAIN map_ :
       map_'[i].ext # map_[i].ext =>
         map_[i].ext = Unspecified /\ map_'[i].ext # Unspecified]_vars

C2_Witness ==
  /\ last.upgraded
  /\ map_[last.obj].ext = last.key.ext
  /\ Len(map_) >= 2

\* The order of the states of a target: unknown, then the states a recipe
\* leaves.
state_rank(ts) == IF ts = "unknown" THEN 0 ELSE 1

\* Whether this step is a target::recipe call that installed a recipe.
Installed == rlast'.op = "recipe"

\* C3: a recipe is installed on a target that already has one only for a
\* stronger action, and when the action compares equal to the current one
\* the recipe replaced is the noop recipe.
C3_OverrideOnlyStronger ==
  [][(Installed /\ tgt.recipe_ # "empty") =>
       /\ action_gt(tgt'.action, tgt.action)
       /\ (action_eq(tgt'.action, tgt.action) => tgt.recipe_ = "noop")]_vars

C3_Witness ==
  /\ rlast.op = "recipe" /\ rlast.override
  /\ rlast.prev.recipe_ = "noop" /\ rlast.prev.action.outer = "install"
  /\ tgt.recipe_ = "perform_update" /\ tgt.action.outer = "none"

\* C6 as stated: the state of a target never returns to an earlier state.
C6_NeverBack ==
  [][state_rank(tgt'.raw_state) >= state_rank(tgt.raw_state)]_vars

\* C6 as amended: the state of a target changes only from unknown (or, in
\* the second pass, postponed) to the state its recipe returned, except
\* that target::recipe sets it to unchanged when it installs the noop
\* recipe and resets it to unknown when it installs any other recipe.
C6_StateMoves ==
  [][tgt'.raw_state # tgt.raw_state =>
       IF Installed
         THEN tgt'.raw_state = (IF tgt'.recipe_ = "noop" THEN "unchanged"
                                                         ELSE "unknown")
         ELSE /\ tgt.raw_state \in {"unknown", "postponed"}
              /\ tgt'.raw_state # "unknown"]_vars

C6_Witness ==
  /\ rlast.op = "recipe"
  /\ rlast.prev.raw_state = "changed"
  /\ tgt.recipe_ = "perform_clean" /\ tgt.raw_state = "unknown"

(***************************************************************************)
(* Executor and recipes.                                                   *)
(***************************************************************************)

started(t) == runs[t][1] + runs[t][2] > 0

completed(t) == ~busy[t] /\ tg[t].raw_state # "unknown"

PathUpdated(t) == op = "update" /\ kind[t] = "path" /\ started(t) /\ ~busy[t]

Newer(t) ==
  \E p \in Range(prereqs[t]) : kind[p] = "path" /\ mtime[p] > mtime[t]

\* C8 as stated: path_rule::perform_update fails if some prerequisite is
\* newer than the target and in every other case returns unchanged.
C8_FailsIffNewer ==
  \A t \in Targets : PathUpdated(t) =>
    tg[t].raw_state = IF Newer(t) THEN "failed" ELSE "unchanged"

\* C8: path_rule::perform_update fails if executing a prerequisite failed,
\* if an mtime-based prerequisite is newer than the target, or if a
\* prerequisite that is not mtime-based returned changed; in every other
\* case it returns unchanged.
C8_FailsIffAhead ==
  \A t \in Targets : PathUpdated(t) =>
    tg[t].raw_state =
      IF \/ Newer(t)
         \/ \E p \in Range(prereqs[t]) :
              \/ kind[p] # "path" /\ tg[p].raw_state = "changed"
              \/ tg[p].raw_state = "failed"
        THEN "failed" ELSE "unchanged"

C8_Witness ==
  \E t \in Targets :
    /\ PathUpdated(t) /\ ~Newer(t) /\ tg[t].raw_state = "failed"
    /\ \E p \in Range(prereqs[t]) : kind[p] = "fsdir" /\ tg[p].raw_state = "changed"
    /\ \A p \in Range(prereqs[t]) : tg[p].raw_state # "failed"
Edges == {e \in Targets \X Targets : e[2] \in Range(prereqs[e[1]])}

\* C5 as stated: in mode first (update) the recipe of a prerequisite p has
\* completed before the recipe of t starts; in mode last (clean) the recipe
\* of t has completed before the recipe of p starts.
C5_RecipeAfterRecipe ==
  \A e \in Edges :
    IF op = "update" THEN started(e[1]) => completed(e[2])
                     ELSE started(e[2]) => completed(e[1])

\* C5: the prerequisites are executed from within the recipe of t. In mode
\* first (update) the recipes of all prerequisites of t have completed
\* before t carries out its own action (creates its directory, returns its
\* state); in mode last (clean) t has carried out its own action (the
\* attempt to remove its directory) before its recipe executes any of its
\* prerequisites.
C5_OwnActionOrder ==
  /\ op = "update" =>
       \A e \in Edges : acted[e[1]] => completed(e[2])
  /\ op = "clean" =>
       \A w \in Workers : \A j \in DOMAIN stack[w] :
         (j < Len(stack[w]) \/ stack[w][j].k > 0) => acted[stack[w][j].t]

C5_Witness ==
  /\ op = "update"
  /\ \E e \in Edges :
       /\ kind[e[1]] = "fsdir" /\ acted[e[1]] /\ busy[e[1]]
       /\ tg[e[2]].raw_state = "changed" /\ runs[e[2]][1] = 1

Terminal == {"unchanged", "changed", "postponed", "failed", "group"}

\* C4 as stated: the recipe of a target is invoked at most once, and all
\* callers of execute observe the same terminal state.
C4_AtMostOnce ==
  \A t \in Targets :
    /\ runs[t][1] + runs[t][2] <= 1
    /\ Cardinality({o[2] : o \in obs[t]}) <= 1

\* C4: the recipe of a target is invoked at most once in each pass, and a
\* second time only in the second pass for a target recorded as postponed;
\* a caller that reaches the target while it is executing waits; the
\* callers of one pass all observe the same state, which is the terminal
\* state the target was left in, never an intermediate one.
C4_OncePerPass ==
  /\ [](\A t \in Targets :
         /\ runs[t][1] <= 1 /\ runs[t][2] <= 1
         /\ runs[t][2] = 1 => runs[t][1] = 1 /\ t \in psp
         /\ \A o \in obs[t] : o[2] \in Terminal
         /\ \A o1, o2 \in obs[t] : o1[1] = o2[1] => o1 = o2)
  /\ [][\A t \in Targets : obs'[t] # obs[t] =>
           /\ ~busy'[t]
           /\ obs'[t] \ obs[t] = {<<pass, tg'[t].raw_state>>}]_vars

C4_Witness ==
  \E t \in Targets :
    /\ runs[t] = <<1, 1>> /\ tg[t].dependents = 2
    /\ obs[t] = {<<1, "postponed">>, <<2, "changed">>}
    /\ \E w \in Workers : Len(stack[w]) > 0

\* C7 as stated, which holds: a target whose recipe returns postponed is
\* recorded; the second pass starts when the first has finished, with the
\* recorded targets to run; a recipe is run again only in the second pass
\* and only for a postponed target; when the second pass is over every
\* recorded target was run again; a target that returns postponed again
\* fails the operation, and no recipe is run more than twice.
C7_SecondPass ==
  /\ [](\A t \in Targets :
         /\ tg[t].raw_state = "postponed" => t \in psp
         /\ (pass = 3 /\ t \in psp) => runs[t] = <<1, 1>>
         /\ ppd[t] <= 2 /\ (ppd[t] = 2 => failedOp)
         /\ runs[t][1] + runs[t][2] <= 2)
  /\ [][\A t \in Targets :
           (runs'[t] # runs[t] /\ started(t)) =>
             pass = 2 /\ tg[t].raw_state = "postponed" /\ t \in psp]_vars
  /\ [][(pass' = 2 /\ pass = 1) =>
           /\ todo = {} /\ \A w \in Workers : stack[w] = <<>>
           /\ todo' = psp]_vars

C7_Witness ==
  /\ pass = 3 /\ failedOp
  /\ \E t \in psp :
       ppd[t] = 2 /\ runs[t] = <<1, 1>> /\ tg[t].raw_state = "failed"
(***************************************************************************)
(* Matching.                                                               *)
(***************************************************************************)

PathRuleAsked ==
  Len(asked) = Len(Registry) /\ asked[Len(Registry)] # "skip"

PathRuleClaims == asked[Len(Registry)] = "yes"

PathRuleApplied == mres.status = "matched" /\ mres.rule = Len(Registry)

\* The file of the target: at its path, the derived one if none is
\* assigned.
FileExists ==
  (IF ptgt.path = <<>> THEN derive_path(ptgt) ELSE ptgt.path) \in disk

\* C9 as stated: for the update operation path_rule::match claims the
\* target iff its file exists, for every other operation it claims it; and
\* path_rule::apply returns noop for clean and default for the operations
\* other than update and clean.
C9_UpdateIffExists ==
  /\ PathRuleAsked =>
       PathRuleClaims = (act.inner = "update" => FileExists)
  /\ PathRuleApplied =>
       /\ act.inner = "clean" => mres.recipe = "noop"
       /\ act.inner \notin {"update", "clean"} => mres.recipe = "default"

\* C9: path_rule::match claims the target iff its file exists on disk once
\* the path has been derived for the action perform_update (whatever the
\* outer operation) and unconditionally for every other action, update
\* under another meta-operation included; path_rule::apply returns noop for
\* clean, perform_update for perform_update, and for the remaining actions
\* default if the target has prerequisites and noop if it has none.
C9_PerformUpdateIffExists ==
  /\ PathRuleAsked =>
       /\ PathRuleClaims = (is_perform_update(act) => FileExists)
       /\ is_perform_update(act) => ptgt.path # <<>>
  /\ PathRuleApplied =>
       mres.recipe =
         IF act.inner = "clean" THEN "noop"
         ELSE IF act.meta = "perform" /\ act.inner = "update"
           THEN "perform_update"
         ELSE IF ptgt.has THEN "default" ELSE "noop"

C9_Witness ==
  /\ PathRuleAsked /\ PathRuleClaims /\ PathRuleApplied
  /\ act.meta = "configure" /\ act.inner = "update" /\ ~FileExists
  /\ ~ptgt.has /\ mres.recipe = "noop"

Others == {i \in DOMAIN rules : i <= Len(asked) /\ asked[i] = "yes"}

ChainCase ==
  /\ \A t \in Targets :
       /\ kind[t] = "fsdir" /\ prereqs[t] = shape_prereqs("chain", t)
       /\ ~exists0[t] /\ ~junk[t]
  /\ Len(hist) + Len(plan) = 2

C12_CleanTwice ==
  (Len(hist) >= 1 /\ hist[Len(hist)].op = "clean" /\ op = "clean"
     /\ hist[Len(hist)].psp = {}) =>
    /\ exists = hist[Len(hist)].exists
    /\ \A t \in Targets : tg[t].raw_state # "changed"
    /\ ~failedOp

C12_Witness ==
  /\ Len(hist) = 1 /\ plan = <<>> /\ hist[1].op = "clean" /\ op = "clean"
  /\ hist[1].psp = {} /\ pass = 3
  /\ \E t \in Targets : hist[1].report[t] = "changed" /\ exists0[t]
  /\ \E t \in Targets : kind[t] = "path"
  /\ \A t \in Targets : tg[t].raw_state = "unchanged"

(***************************************************************************)
(* Claims about bootstrap and import (SpecBoot).                           *)
(***************************************************************************)

\* The last call was create_root (out_root, src_root).
CreateRootCalled(out_root, src_root) ==
  blast'.op = <<"create_root", out_root, src_root>>

\* C13: create_root for a root scope whose src_root or out_root variable
\* is already set to a different value fails and leaves the stored
\* out_root and src_root as they were; called with the values the scope
\* already has it succeeds and returns that same scope, its values kept.
\* An empty src_root argument gives no value to compare.
C13_RootMismatchFails ==
  [][\A o \in ScopeDirs, s \in SrcDirs :
       CreateRootCalled(o, s) =>
         LET old == scopes[o] IN
         /\ ((old.out_root # Null /\ old.out_root # o)
              \/ (old.src_root # Null /\ old.src_root # s))
            => /\ blast'.err # ""
               /\ scopes'[o].out_root = old.out_root
               /\ scopes'[o].src_root = old.src_root
         /\ (old.live /\ old.out_root = o /\ old.src_root = s)
            => /\ blast'.err = ""
               /\ blast'.ret = o
               /\ scopes'[o].out_root = o
               /\ scopes'[o].src_root = s]_vars

C13_Witness ==
  /\ blast.op[1] = "create_root"
  /\ blast.err = "new src_root does not match existing"
  /\ scopes[blast.op[2]].src_root \notin {Null, blast.op[3]}
  /\ scopes[blast.op[2]].out_root = blast.op[2]

\* The number of entries of the table tab that hold name.
Registered(tab, name) == Cardinality({i \in DOMAIN tab : tab[i] = name})

\* The built-in names of a root scope are in their slots.
BuiltinSlots(sc) ==
  /\ Len(sc.meta_operations) >= 1 /\ sc.meta_operations[1] = "perform"
  /\ Len(sc.operations) >= 3
  /\ SubSeq(sc.operations, 1, 3) = <<"default", "update", "clean">>
  /\ Registered(sc.meta_operations, "perform") = 1
  /\ \A n \in {"default", "update", "clean"} : Registered(sc.operations, n) = 1

\* C14: after any calls of create_root and boots of modules, every root
\* scope has perform as its first meta-operation and default, update and
\* clean in its first three operation slots, each registered once.
C14_BuiltinSlots == \A d \in ScopeDirs : scopes[d].live => BuiltinSlots(scopes[d])

\* C14, in a build that keeps assert: there the built-in names of every
\* root scope are in their slots, each registered once.
C14_BuiltinSlotsWithAssert == ~ndebug => C14_BuiltinSlots

C14_Witness ==
  /\ ~ndebug
  /\ blast.op[1] = "create_root" /\ blast.err = ""
  /\ \E d \in ScopeDirs \ {<<"a">>} :
       /\ blast.op[2] = d
       /\ Len(scopes[d].operations) = 6
       /\ BuiltinSlots(scopes[d])

\* The buildfiles the last call sourced in scope d.
SourceEvents == {i \in DOMAIN blast'.log : blast'.log[i][1] = "source"}

Sourced(d) ==
  {blast'.log[i][2] : i \in {j \in SourceEvents : blast'.log[j][3] = d}}

\* The last call was source_once (bf, d, d, d).
SourceOnceCalled(bf, d) == blast'.op = <<"source_once", bf>> /\ bf.d = d

\* C15: with the same once scope a buildfile is parsed at most once: a
\* call of source_once for a path the scope has not recorded records it
\* and tries to source it, failing if the file cannot be opened; a call
\* for a recorded path, also one whose sourcing failed, returns without
\* sourcing and without an error. No call sources a recorded path, or a
\* path twice.
C15_SourcedAtMostOnce ==
  [][/\ \A d \in ScopeDirs :
          /\ scopes[d].buildfiles \subseteq scopes'[d].buildfiles
          /\ Sourced(d) \cap scopes[d].buildfiles = {}
          /\ Sourced(d) \subseteq scopes'[d].buildfiles
          /\ \A i, j \in SourceEvents : blast'.log[i] = blast'.log[j] => i = j
     /\ \A e \in ScopeDirs, f \in RootFiles :
          SourceOnceCalled(bfile(e, f), e) =>
            LET bf == bfile(e, f)
                d == e IN
            IF bf \in scopes[d].buildfiles
              THEN blast'.log = <<>> /\ blast'.err = "" /\ scopes' = scopes
            ELSE /\ bf \in scopes'[d].buildfiles
                 /\ IF file_exists(bf)
                      THEN blast'.log = <<<<"source", bf, d>>>> /\ blast'.err = ""
                      ELSE blast'.log = <<>> /\ blast'.err = "unable to open"]_vars

C15_Witness ==
  /\ nboots = 2
  /\ blast.op[1] = "source_once"
  /\ blast.log = <<>> /\ blast.err = ""
  /\ file_exists(blast.op[2])
  /\ blast.op[2] \in scopes[blast.op[2].d].buildfiles

\* C15 as stated: the first call for a path sources it, every later call
\* returns without sourcing and without an error.
C15_FirstCallSources ==
  [][\A d \in ScopeDirs, f \in RootFiles :
       SourceOnceCalled(bfile(d, f), d) =>
         IF bfile(d, f) \in scopes[d].buildfiles
           THEN blast'.log = <<>> /\ blast'.err = ""
           ELSE blast'.log = <<<<"source", bfile(d, f), d>>>> /\ blast'.err = ""]_vars

\* The last call logged the event e.
Logged(e) ==
  \E i \in DOMAIN blast'.log :
     blast'.log[i][1] = e[1] /\ Len(blast'.log[i]) = Len(e) /\ blast'.log[i] = e

\* bootstrap_out of the root rs, created for the source directory
\* derived, alters its src_root: create_root accepts derived, and
\* src-root.build, not yet sourced, assigns another directory.
AltersSrcRoot(rs, derived) ==
  /\ scopes[rs].src_root \in {Null, derived}
  /\ file_exists(bfile(rs, "src-root.build"))
  /\ bfile(rs, "src-root.build") \notin scopes[rs].buildfiles
  /\ srcroot[rs] # derived

\* The call failed on the src_root of rs, bootstrapped no further.
MismatchFatal(rs, derived, what) ==
  /\ blast'.err = "bootstrapped src_root does not match " \o what
  /\ scopes'[rs].src_root # derived
  /\ scopes'[rs].src_path_ = Null
  /\ Logged(<<"bootstrap_out", rs>>)
  /\ ~Logged(<<"src_path_", rs>>)
  /\ ~Logged(<<"bootstrap_src", rs>>)

\* C16: create_bootstrap_outer fails if after bootstrap_out of the outer
\* root its src_root differs from the directory derived from amalgamation,
\* and create_bootstrap_inner likewise for the inner root and the
\* directory derived from subprojects; the scope's src_path_ is then not
\* set and bootstrap_src is not run for it.
C16_BootstrapMismatchFatal ==
  [][\A r \in ScopeDirs :
       /\ (blast'.op = <<"create_bootstrap_outer", r>>
             /\ scopes[r].amalgamation # Null)
            => LET rs == dir_join(r, scopes[r].amalgamation)
                   derived == dir_join(scopes[r].src_root, scopes[r].amalgamation)
               IN /\ AltersSrcRoot(rs, derived)
                       => MismatchFatal(rs, derived, "amalgamated")
                  /\ blast'.err = "bootstrapped src_root does not match amalgamated"
                       => AltersSrcRoot(rs, derived)
       /\ (blast'.op = <<"create_bootstrap_inner", r, <<"o", "p">>>>
             /\ scopes[r].subprojects # Null
             /\ dir_sub(<<"o", "p">>, dir_join(r, scopes[r].subprojects)))
            => LET rs == dir_join(r, scopes[r].subprojects)
                   derived == dir_join(scopes[r].src_root, scopes[r].subprojects)
               IN /\ AltersSrcRoot(rs, derived)
                       => MismatchFatal(rs, derived, "subproject")
                  /\ blast'.err = "bootstrapped src_root does not match subproject"
                       => AltersSrcRoot(rs, derived)]_vars

C16_Witness ==
  /\ blast.op = <<"create_bootstrap_outer", <<"o", "p">>>>
  /\ blast.err = "bootstrapped src_root does not match amalgamated"
  /\ scopes[<<"o">>].live
  /\ scopes[<<"o">>].src_root # dir_join(scopes[<<"o", "p">>].src_root, <<"..">>)
  /\ scopes[<<"o">>].src_path_ = Null
  /\ bfile(scopes[<<"o">>].src_root, "bootstrap.build") \notin scopes[<<"o">>].buildfiles

\* The same case of create_bootstrap_inner.
C16_InnerCase ==
  /\ blast.op[1] = "create_bootstrap_inner"
  /\ blast.err = "bootstrapped src_root does not match subproject"
  /\ scopes[<<"o", "p">>].src_path_ = Null

\* The directory src_path_ of the scope d denotes: the value of the
\* src_root variable it points to.
src_path(d) == scopes[d].src_root

\* The last call set src_path_ of the scope d.
SetSrcPath(d) ==
  \E i \in DOMAIN blast.log : blast.log[i] = <<"src_path_", d>>

\* C17: once src_path_ of a root scope is set, it denotes the directory
\* it denoted when it was set, whatever create_bootstrap_outer,
\* create_bootstrap_inner or import, also a repeated one, is called later.
C17_SrcPathImmutable ==
  \A d \in ScopeDirs :
     scopes[d].src_path_ # Null => src_path(d) = scopes[d].src_path0

C17_Witness ==
  /\ nboots = 2
  /\ blast.op[1] = "import" /\ blast.err = ""
  /\ SetSrcPath(<<"o", "p">>) /\ SetSrcPath(<<"o">>)
  /\ \A i \in DOMAIN blast.log : blast.log[i][1] # "source"
  /\ \A d \in {<<"o">>, <<"o", "p">>} :
       scopes[d].src_path_ # Null /\ src_path(d) = scopes[d].src_path0

\* The variables of a scope, names and values.
ScopeVars(sc) ==
  [out_root |-> sc.out_root, src_root |-> sc.src_root,
   amalgamation |-> sc.amalgamation, subprojects |-> sc.subprojects,
   config_p |-> sc.config_p]

\* The last call was import, from the importing scope a/.
ImportCalled == blast'.op[1] = "import"

\* config.<project> is taken from the global scope, and is valid.
GlobalConfig ==
  scopes[<<"a">>].config_p = Null /\ gconfig.set /\ Len(gconfig.lv) = 1

\* C18: import leaves the variables of the importing scope and of its
\* root scope as they were, but for config.<project>: a value taken from
\* the global scope is completed and assigned in the importing root
\* scope. out_root, src_root and target for the export stub are in the
\* temporary scope only, and the exported value is returned.
C18_ImportIsolation ==
  [][ImportCalled =>
       LET old == ScopeVars(scopes[<<"a">>])
           new == ScopeVars(scopes'[<<"a">>])
       IN /\ new = [old EXCEPT !.config_p =
                      IF GlobalConfig THEN dir_join(work, gconfig.lv[1]) ELSE @]
          /\ blast'.err = ""
               => /\ blast'.temp.out_root = new.config_p
                  /\ blast'.temp.target = blast'.op[2]
                  /\ blast'.ret = <<new.config_p, blast'.op[2]>>
                  /\ new.out_root = <<"a">> /\ new.src_root = <<"a">>]_vars

C18_Witness ==
  /\ nboots = 1
  /\ blast.op = <<"import", <<"lib">>>> /\ blast.err = ""
  /\ gconfig.set
  /\ scopes[<<"a">>].config_p = <<"o", "p">>
  /\ blast.temp = [out_root |-> <<"o", "p">>, src_root |-> <<>>,
                   target |-> <<"lib">>]
  /\ blast.ret = <<<<"o", "p">>, <<"lib">>>>

\* C18 as stated: import leaves the variables of the importing scope and
\* of its root scope exactly as they were.
C18_ImportLeavesVariables ==
  [][ImportCalled =>
       ScopeVars(scopes'[<<"a">>]) = ScopeVars(scopes[<<"a">>])]_vars

\* config.<project> is defined neither in the importing root scope nor
\* in the global scope.
ConfigUndefined == scopes[<<"a">>].config_p = Null /\ ~gconfig.set

\* C19: if config.<project> is not defined for the importing root scope,
\* import fails with 'unable to find out_root' before a root scope is
\* created or bootstrapped and before a buildfile is sourced: the scopes
\* are unchanged.
C19_UnknownProjectFails ==
  [][(ImportCalled /\ ConfigUndefined) =>
       /\ blast'.err = "unable to find out_root"
       /\ blast'.log = <<>>
       /\ blast'.ret = Null
       /\ scopes' = scopes]_vars

C19_Witness ==
  /\ nboots = 2
  /\ blast.op[1] = "import"
  /\ blast.err = "unable to find out_root"
  /\ blast.log = <<>>
  /\ ConfigUndefined
  /\ scopes[<<"o", "p">>].live
  /\ scopes[<<"o", "p">>].src_path_ # Null
  /\ ~scopes[<<"o">>].live

\* The step of import an event of its log belongs to, r the imported
\* root: create_root (1), bootstrap_out (2), determination of src_root
\* (3), bootstrap_src (4), bootstrap of the outer roots (5), loading of
\* root.build, of the outer roots and of r (6), export.build (7).
Step(e, r) ==
  IF e[1] = "source"
    THEN IF e[2].f = "root.build" THEN 6
         ELSE IF e[3] # r THEN 5
         ELSE IF e[2].f = "src-root.build" THEN 2 ELSE 4
  ELSE IF e[1] = "export" THEN 7
  ELSE IF e[1] = "load_root" THEN 6
  ELSE IF e[2] # r THEN 5
  ELSE IF e[1] = "create_root" THEN 1
  ELSE IF e[1] = "bootstrap_out" THEN 2
  ELSE IF e[1] = "src_path_" THEN 3
  ELSE 4

\* The steps of the last call, in the order they were made.
Steps(r) == [i \in DOMAIN blast.log |-> Step(blast.log[i], r)]

\* The last call evaluated export.build.
Exported == \E i \in DOMAIN blast.log : blast.log[i][1] = "export"

\* C20: in a successful import the imported root is created, then
\* bootstrapped out, then its src_root is determined, then it is
\* bootstrapped src, then its outer roots are bootstrapped, then
\* root.build is loaded, and only then export.build is evaluated;
\* export.build is evaluated in a successful import only, never for a
\* root whose src_root could not be determined.
C20_ImportOrder ==
  blast.op[1] = "import" =>
    LET r == scopes[<<"a">>].config_p
        s == Steps(r)
    IN /\ Exported <=> blast.err = ""
       /\ blast.err = "unable to determine src_root"
            => \A i \in DOMAIN s : s[i] <= 2
       /\ Exported =>
            /\ \A i, j \in DOMAIN s : i < j => s[i] <= s[j]
            /\ \A k \in {1, 2, 3, 4, 6, 7} : \E i \in DOMAIN s : s[i] = k
            /\ scopes[r].amalgamation # Null => \E i \in DOMAIN s : s[i] = 5
            /\ s[Len(s)] = 7 /\ Len(s) > 1 /\ s[Len(s) - 1] = 6
            /\ scopes[r].src_path_ # Null /\ scopes[r].src_root # Null

C20_Witness ==
  /\ nboots = 1
  /\ blast.op[1] = "import" /\ blast.err = ""
  /\ Exported
  /\ \A k \in 1..7 : \E i \in DOMAIN blast.log :
       Step(blast.log[i], <<"o", "p">>) = k
  /\ \E i \in DOMAIN blast.log :
       blast.log[i] = <<"source", bfile(scopes[<<"o">>].src_root, "root.build"), <<"o">>>>

(***************************************************************************)
(* Claims about loading (SpecLoad).                                        *)
(***************************************************************************)

\* The root scopes from the outermost around root to root itself.
RootChain(root) ==
  LET outer == SubSeq(root, 1, Len(root) - 1)
  IN IF Len(root) > 1 /\ scopes[outer].live THEN <<outer, root>> ELSE <<root>>

\* What load_root_pre is to do for the root scope q: its root.build is
\* sourced if it exists and the scope has not recorded it.
LoadOf(q) ==
  LET bf == bfile(scopes[q].src_root, "root.build")
  IN <<<<"load_root", q>>>> \o
       (IF file_exists(bf) /\ bf \notin scopes[q].buildfiles
          THEN <<<<"source", bf, q>>>> ELSE <<>>)

RECURSIVE LoadsOf(_)
LoadsOf(chain) ==
  IF chain = <<>> THEN <<>> ELSE LoadOf(Head(chain)) \o LoadsOf(Tail(chain))

\* C21: load_root_pre (root) sources the root.build of every root scope
\* around root before that of root, outermost first, and a root.build a
\* scope has sourced before is not sourced again.
C21_OuterRootsFirst ==
  [][\A r \in ScopeDirs :
       blast'.op = <<"load_root_pre", r>> =>
         /\ blast'.err = ""
         /\ blast'.log = LoadsOf(RootChain(r))
         /\ \A d \in ScopeDirs :
              /\ Sourced(d) \cap scopes[d].buildfiles = {}
              /\ Sourced(d) \subseteq scopes'[d].buildfiles]_vars

C21_Witness ==
  /\ nboots = 1
  /\ blast.op = <<"load_root_pre", <<"o", "p">>>>
  /\ blast.log =
       << <<"load_root", <<"o">>>>,
          <<"source", bfile(scopes[<<"o">>].src_root, "root.build"), <<"o">>>>,
          <<"load_root", <<"o", "p">>>>,
          <<"source", bfile(scopes[<<"o", "p">>].src_root, "root.build"),
            <<"o", "p">>>> >>

\* A repeated load_root_pre finds everything loaded.
C21_RepeatedCase ==
  /\ nboots = 2
  /\ blast.op = <<"load_root_pre", <<"o", "p">>>>
  /\ blast.log = << <<"load_root", <<"o">>>>, <<"load_root", <<"o", "p">>>> >>
  /\ bfile(scopes[<<"o">>].src_root, "root.build") \in scopes[<<"o">>].buildfiles

(***************************************************************************)
(* The test script runner.                                                 *)
(***************************************************************************)

\* The working directory can be entered: it does not exist, or it
\* exists and is empty.
CanEnter == ~fs_exists(wfs, wd_path) \/ fs_empty(wfs, wd_path)

\* The cleanup enter registers.
WdCleanup == [type |-> "always", path |-> wd_path]

\* C22: enter succeeds if and only if the working directory does not
\* exist, and then it is created, or exists and is empty; when it
\* succeeds the working directory is appended to the cleanups, and when
\* it fails nothing is created and nothing is registered.
C22_EnterChecksWorkingDirectory ==
  [][wlast'.op = "enter" =>
       /\ (wlast'.err = "") <=> CanEnter
       /\ CanEnter => /\ wfs' = wfs \cup {wd_path}
                      /\ cleanups' = Append(cleanups, WdCleanup)
       /\ ~CanEnter => /\ wfs' = wfs
                       /\ cleanups' = cleanups]_vars

\* enter has created the working directory and registered it.
C22_Witness ==
  /\ wlast.op = "enter"
  /\ wlast.err = ""
  /\ wphase = "in"
  /\ wd_path \in wfs
  /\ cleanups = <<WdCleanup>>

\* enter has failed on a working directory that is not empty.
C22_FailedCase ==
  /\ wlast.op = "enter"
  /\ wlast.err = "directory is not empty"
  /\ "w/f" \in wfs
  /\ cleanups = <<>>

\* A cleanup is the last one registered for its path.
IsLast(cl, i) == \A j \in DOMAIN cl : j > i => cl[j].path # cl[i].path

RECURSIVE LastFirst(_, _)
\* The paths leave has to remove, of the cleanups 1..i: those of the
\* last registration of each path, the last one first, without the
\* paths never to be removed and the missing ones that may be missing.
LastFirst(cl, i) ==
  IF i = 0 THEN <<>>
  ELSE IF /\ IsLast(cl, i)
          /\ \/ cl[i].type = "always"
             \/ cl[i].type = "maybe" /\ cl[i].path \in wfs
    THEN <<cl[i].path>> \o LastFirst(cl, i - 1)
  ELSE LastFirst(cl, i - 1)

\* leave has succeeded in this step.
Left == wlast'.op = "leave" /\ wlast'.err = ""

\* C23: a leave that succeeds removes each distinct registered path
\* exactly once, in the reverse order of the last registration of each
\* path, the earlier registrations of a path being skipped; a path
\* qualified never, and a missing one qualified maybe, are left out.
C23_LeaveOrder ==
  [][Left =>
       /\ removed' = LastFirst(cleanups, Len(cleanups))
       /\ wfs' = wfs \ {removed'[i] : i \in DOMAIN removed'}]_vars

\* leave has removed a file registered twice once, and then the
\* working directory.
C23_Witness ==
  /\ wlast.op = "leave"
  /\ wlast.err = ""
  /\ Len(cleanups) = 3
  /\ cleanups[1] = WdCleanup
  /\ cleanups[2] = cleanups[3]
  /\ cleanups[2] = [type |-> "always", path |-> "w/f"]
  /\ removed = <<"w/f", wd_path>>

\* The working directory registered again by a command is removed
\* before a path registered before that.
C23_WdAgainCase ==
  /\ wlast.op = "leave"
  /\ wlast.err = ""
  /\ cleanups =
       <<WdCleanup, [type |-> "always", path |-> "x"], WdCleanup>>
  /\ removed = <<wd_path, "x">>

\* C23 as stated: leave removes each distinct registered path exactly
\* once, and the working directory registered by enter after every path
\* registered by the commands.
C23_WdRemovedLast ==
  [][(Left /\ \A i \in DOMAIN cleanups : cleanups[i].type = "always") =>
       /\ {removed'[i] : i \in DOMAIN removed'} =
            {cleanups[i].path : i \in DOMAIN cleanups}
       /\ \A i, j \in DOMAIN removed' : removed'[i] = removed'[j] => i = j
       /\ removed'[Len(removed')] = wd_path]_vars

RECURSIVE Walk(_, _)
\* The cleanups leave looks at, of the cleanups 1..i: the last
\* registration of each path, the last one first.
Walk(cl, i) ==
  IF i = 0 THEN <<>>
  ELSE IF IsLast(cl, i) THEN <<cl[i]>> \o Walk(cl, i - 1)
  ELSE Walk(cl, i - 1)

\* The cleanup c cannot be done in the filesystem fs: a directory that
\* is not empty, or a missing path that has to exist.
Fails(c, fs) ==
  /\ c.type # "never"
  /\ \/ to_directory(c.path) /\ c.path \in fs /\ ~fs_empty(fs, c.path)
     \/ c.path \notin fs /\ c.type = "always"

\* The paths of the cleanups before the k-th of the walk W that are
\* there to be removed.
Before(W, k) ==
  {W[j].path : j \in {j \in 1..(k - 1) : W[j].type # "never" /\ W[j].path \in wfs}}

\* The cleanups of the walk W that cannot be done when leave comes to
\* them.
Failing(W) == {k \in DOMAIN W : Fails(W[k], wfs \ Before(W, k))}

\* C24: during leave a registered directory that is not empty and a
\* registered missing file each make leave fail; leave stops at the
\* first path that fails, and it never removes a directory that is not
\* empty.
C24_LeaveFails ==
  [][wlast'.op = "leave" =>
       LET W == Walk(cleanups, Len(cleanups))
       IN /\ (wlast'.err # "") <=> (Failing(W) # {})
          /\ Failing(W) # {} =>
               /\ wfs' = wfs \ Before(W, Min(Failing(W)))
               /\ Range(removed') = Before(W, Min(Failing(W)))
          /\ \A i \in DOMAIN removed' :
               \A p \in wfs :
                 parent(p) = removed'[i] => \E j \in 1..(i - 1) : removed'[j] = p]_vars

\* leave has removed a file and then failed on the working directory,
\* which a directory not registered is in.
C24_Witness ==
  /\ wlast.op = "leave"
  /\ wlast.err = "registered for cleanup directory is not empty"
  /\ removed = <<"w/f">>
  /\ {wd_path, "w/d/"} \subseteq wfs

\* leave has failed on a registered file that does not exist, and has
\* left a path registered before it.
C24_MissingFileCase ==
  /\ wlast.op = "leave"
  /\ wlast.err = "registered for cleanup file does not exist"
  /\ removed = <<>>
  /\ {wd_path, "x"} \subseteq wfs
  /\ \E i \in DOMAIN cleanups : cleanups[i] = [type |-> "always", path |-> "x"]

\* The cleanup registered by the clean of this step.
Cleaned == [type |-> wlast'.reg.type, path |-> wlast'.reg.path]

C28_OverrideCase ==
  /\ wlast.op = "clean"
  /\ ~wlast.reg.implicit
  /\ cleanups = <<[type |-> "maybe", path |-> wd_path]>>

\* The child of the run of this step has terminated normally with a
\* status of 0..255.
Normal == wlast'.ch.status.some /\ wlast'.ch.status.v \in 0..255

\* The status of the child agrees with the expectation of the command.
Agrees ==
  (wlast'.ch.status.v = wlast'.c.exit.status) <=>
    (wlast'.c.exit.comparison = "eq")

\* C25: run passes the check of the exit status if and only if the
\* child has terminated normally with a status of 0..255 and the
\* equality of the status and the expected one is as the command
\* expects (eq or ne); otherwise run fails and the outputs are not
\* compared.
C25_ExitStatus ==
  [][wlast'.op = "run" =>
       /\ (Normal /\ Agrees) <=> (wlast'.err # "exit status")
       /\ (Normal /\ Agrees) => wlast'.checks # <<>>
       /\ ~(Normal /\ Agrees) => wlast'.checks = <<>>]_vars

\* run has failed on a status above 255 that differs from the expected
\* one as the command expects.
C25_Witness ==
  /\ wlast.op = "run"
  /\ wlast.ch.status = ExitStatus(256)
  /\ wlast.c.exit = [comparison |-> "ne", status |-> 0]
  /\ wlast.err = "exit status"
  /\ wlast.checks = <<>>
  /\ wphase = "failed"

\* run has passed a status that differs from the expected one.
C25_NeCase ==
  /\ wlast.op = "run"
  /\ wlast.ch.status = ExitStatus(255)
  /\ wlast.c.exit = [comparison |-> "ne", status |-> 0]
  /\ wlast.err = ""
  /\ wlast.checks = <<"stdout", "stderr">>

\* The lines of an output without the carriage returns at their ends.
Stripped(a) == [i \in DOMAIN a |-> strip_trailing_cr(a[i])]

\* An output of the content w is accepted for the redirect rd.
Accepted(rd, w) ==
  CASE rd.type = "none" -> w = <<>>
    [] rd.type \in {"here_string", "here_document"} ->
         Stripped(rd.str) = Stripped(w)
    [] OTHER -> TRUE

\* The output of the run of this step cached in f, checked against rd,
\* has not been accepted: the cached file is left and, for a here-string
\* or here-document, the file of the expected output too.
LeftBehind(rd, f, w) ==
  /\ f \in wfs'
  /\ wdata'[f] = w
  /\ rd.type # "none" => orig(f) \in wfs' /\ wdata'[orig(f)] = rd.str

\* C26: after a correct exit status run accepts an output, stdout and
\* then stderr, if and only if its redirect is none and the cached file
\* is empty, or it is a here-string or here-document and diff finds the
\* cached file identical to the expected content written to the .orig
\* file, or it is any other redirect. On a mismatch run fails and
\* removes neither the cached file nor the .orig file.
C26_OutputCheck ==
  [][(wlast'.op = "run" /\ Normal /\ Agrees) =>
       LET c == wlast'.c
           ch == wlast'.ch
           okout == Accepted(c.out, ch.out)
           okerr == Accepted(c.err, ch.err)
       IN /\ (wlast'.err = "") <=> (okout /\ okerr)
          /\ ~okout => /\ wlast'.checks = <<"stdout">>
                       /\ LeftBehind(c.out, "w/stdout", ch.out)
          /\ okout => wlast'.checks = <<"stdout", "stderr">>
          /\ (okout /\ ~okerr) => LeftBehind(c.err, "w/stderr", ch.err)]_vars

\* run has failed on a stdout that differs from the here-string, and
\* has left the cached file and the .orig file.
C26_Witness ==
  /\ wlast.op = "run"
  /\ wlast.c.out = redirect("here_string", <<"a">>)
  /\ wlast.ch.out = <<"b">>
  /\ wlast.err = "stdout doesn't match the expected output"
  /\ {"w/stdout", "w/stdout.orig"} \subseteq wfs
  /\ wdata["w/stdout"] = <<"b">>
  /\ wdata["w/stdout.orig"] = <<"a">>

\* run has accepted a stdout that differs from the here-document in a
\* carriage return, and an empty stderr that is not redirected.
C26_AcceptedCase ==
  /\ wlast.op = "run"
  /\ wlast.c.out = redirect("here_document", <<"a">>)
  /\ wlast.c.err = redirect("none", <<>>)
  /\ wlast.ch.out = <<"a^M">>
  /\ wlast.err = ""

(***************************************************************************)
(* The stdin of a command.                                                 *)
(***************************************************************************)

\* run is at a pr.wait (), or past it.
AtWait == rpc \in {"wait", "catch", "done", "failed"}

\* run has written the content and closed the pipe.
Delivered == towrite = 0 /\ wclosed

C27_DeliveredCase ==
  /\ rpc = "done"
  /\ nread = MaxContent
  /\ MaxContent > PipeCap

WithValue == {i \in DOMAIN svars : svars[i] # ""}

\* C29: find_original returns the first value found in the target's
\* own variables, in those of its group, and in the base scope and the
\* scopes around it up to the global one; a value of the target shadows
\* those of the group and of the scopes; the depth is 1 for the target,
\* 2 for the group, and greater than 2 for a scope, greater the farther
\* the scope is.
C29_FindOriginalOrder ==
  flast.op = "find_original" =>
    /\ tvars # "" =>
         flast.first = lookup(tvars, "target") /\ flast.second = 1
    /\ (tvars = "" /\ hasgroup /\ gvars # "") =>
         flast.first = lookup(gvars, "group") /\ flast.second = 2
    /\ (tvars = "" /\ ~(hasgroup /\ gvars # "") /\ WithValue # {}) =>
         /\ flast.first = lookup(svars[Min(WithValue)], "scope")
         /\ flast.second = 2 + Min(WithValue)
    /\ (tvars = "" /\ ~(hasgroup /\ gvars # "") /\ WithValue = {}) =>
         ~defined(flast.first)

\* The value of the group has been found, at the depth 2, before that
\* of the base scope.
C29_Witness ==
  /\ flast.op = "find_original"
  /\ tvars = ""
  /\ hasgroup
  /\ gvars = "group"
  /\ svars[1] = "scope"
  /\ flast.first.vars = "group"
  /\ flast.second = 2

\* The value of the global scope, the third of the chain, has been
\* found at the depth 5.
C29_ScopeCase ==
  /\ flast.op = "find_original"
  /\ svars = <<"", "", "scope">>
  /\ flast.first.vars = "scope"
  /\ flast.second = 5

(***************************************************************************)
(* The frame of target::recipe.                                            *)
(***************************************************************************)

\* The recipe installed in this step replaces a noop recipe installed
\* for an equal action.
ReplacesNoop == tgt.recipe_ = "noop" /\ action_eq(tgt'.action, tgt.action)

\* C30: target::recipe sets raw_state to unchanged for the noop recipe
\* and to unknown for any other one, and resets the dependents count to
\* 0 unless it replaces a noop recipe installed for an equal action:
\* then the count accumulated during match is preserved.
C30_RecipeFrame ==
  [][rlast'.op = "recipe" =>
       /\ tgt'.raw_state =
            IF tgt'.recipe_ = "noop" THEN "unchanged" ELSE "unknown"
       /\ tgt'.dependents = IF ReplacesNoop THEN tgt.dependents ELSE 0]_vars

\* A recipe other than noop has replaced a noop recipe of a target with
\* dependents, and the count is kept.
C30_Witness ==
  /\ rlast.op = "recipe"
  /\ rlast.prev.recipe_ = "noop"
  /\ action_eq(tgt.action, rlast.prev.action)
  /\ rlast.prev.dependents > 0
  /\ tgt.dependents = rlast.prev.dependents
  /\ tgt.recipe_ = "perform_update"
  /\ tgt.raw_state = "unknown"

\* A recipe installed for another action has reset the count of a
\* target with dependents.
C30_ResetCase ==
  /\ rlast.op = "recipe"
  /\ ~action_eq(tgt.action, rlast.prev.action)
  /\ rlast.prev.dependents > 0
  /\ tgt.dependents = 0

(***************************************************************************)
(* fsdir_rule::perform_clean.                                              *)
(***************************************************************************)

\* The worker w leaves the step st of the recipe it is in.
Leaves(w, st) ==
  /\ stack[w] # <<>>
  /\ StepOf(Top(w)) = st
  /\ stack'[w] # stack[w]

\* What is to be found of the directory of t when it is removed.
Found(t) ==
  IF ~exists[t] THEN "absent"
  ELSE IF dir_entries(t) THEN "not empty" ELSE "empty"

\* The states execute has returned for t up to this step, and those it
\* returns in this step.
Returned(t) == {o[2] : o \in obs'[t] \ obs[t]}

\* C31: fsdir_rule::perform_clean attempts to remove the directory of
\* the target before it cleans any prerequisite, and cleans the
\* prerequisites, the last one first, whatever became of the removal; it
\* returns changed if the directory was removed, postponed if it was
\* not empty, and otherwise, the directory being absent, the state its
\* prerequisites returned.
C31_PerformClean ==
  [][/\ \A w \in Workers : \A j \in DOMAIN stack'[w] :
          LET f == stack'[w][j]
              ps == prereqs[f.t]
          IN (stack'[w] # stack[w] /\ tg'[f.t].recipe_ = "perform_clean") =>
               /\ (f.k > 0 \/ j < Len(stack'[w])) =>
                    f.rs # "none" /\ acted'[f.t]
               /\ \A i \in (Len(ps) - f.k + 1) .. Len(ps) :
                    tg'[ps[i]].raw_state # "unknown"
     /\ \A w \in Workers :
          Leaves(w, "rmdir") =>
            LET t == Top(w).t
                f == stack'[w][Len(stack[w])]
            IN /\ Len(stack'[w]) = Len(stack[w])
               /\ f.rs = CASE Found(t) = "empty" -> "success"
                            [] Found(t) = "not empty" -> "not_empty"
                            [] OTHER -> "not_exist"
               /\ exists'[t] = (Found(t) = "not empty")
               /\ prereqs[t] # <<>> =>
                    StepOf(f) = "prereqs_rev" /\ f.k = 0
     /\ \A w \in Workers :
          Leaves(w, "return_clean") =>
            LET f == Top(w)
                r == CASE f.rs = "success" -> "changed"
                       [] f.rs = "not_empty" -> "postponed"
                       [] OTHER -> f.ts
            IN /\ f.rs # "none"
               /\ f.k = Len(prereqs[f.t])
               /\ Returned(f.t) =
                    {IF r = "postponed" /\ pass = 2 THEN "failed" ELSE r}]_vars

\* The directory of a target could not be removed, and its recipe has
\* cleaned the prerequisite all the same and returned postponed.
C31_Witness ==
  /\ op = "clean"
  /\ \E t \in Targets :
       /\ kind[t] = "fsdir" /\ junk[t] /\ exists[t] /\ acted[t]
       /\ prereqs[t] # <<>>
       /\ tg[t].raw_state = "postponed"
       /\ \A i \in DOMAIN prereqs[t] :
            acted[prereqs[t][i]] /\ tg[prereqs[t][i]].raw_state # "unknown"

\* The directory of a target was absent, and so was that of its
\* prerequisite: its recipe has returned unchanged, the state of the
\* prerequisite.
C31_AbsentCase ==
  /\ op = "clean"
  /\ \E t \in Targets :
       /\ kind[t] = "fsdir" /\ acted[t] /\ prereqs[t] # <<>>
       /\ tg[t].raw_state = "unchanged"
       /\ \A i \in DOMAIN prereqs[t] :
            acted[prereqs[t][i]] /\ tg[prereqs[t][i]].raw_state = "unchanged"

(***************************************************************************)
(* dir_rule and fsdir_rule: what apply matches and returns.                *)
(***************************************************************************)

\* The directory p is the directory d or lies below it.
InOrBelow(p, d) == \E k \in 0 .. Len(p) : SubSeq(p, 1, k) = d

\* The prerequisites of the target that lie in its directory or below.
Own == {i \in DOMAIN dpre : InOrBelow(dpre[i], ddir)}

\* C32: dir_rule::apply matches for clean only the prerequisites that
\* lie in the directory of the target or below it, and for default and
\* update all the prerequisites; in every case it returns the default
\* recipe, which forwards to the prerequisites matched.
C32_DirRuleApply ==
  (dlast.op = "apply" /\ drule = "dir" /\ ~dlast.asserted) =>
    /\ dlast.recipe = "default"
    /\ daction.inner \in {"default", "update"} => dlast.matched = dpre
    /\ daction.inner = "clean" =>
         /\ Len(dlast.matched) = Cardinality(Own)
         /\ Range(dlast.matched) = {dpre[i] : i \in Own}
         /\ \A i \in DOMAIN dpre \ Own : dpre[i] \notin Range(dlast.matched)

\* dir{a/} has been applied for clean: of its prerequisites a/b/ and d/
\* only a/b/ is matched.
C32_Witness ==
  /\ dlast.op = "apply"
  /\ drule = "dir"
  /\ daction = [meta |-> "perform", outer |-> "none", inner |-> "clean"]
  /\ ddir = <<"a">>
  /\ dpre = << <<"a", "b">>, <<"d">> >>
  /\ dlast.matched = << <<"a", "b">> >>
  /\ dlast.recipe = "default"

\* dir{a/} has been applied for update: both of its prerequisites are
\* matched.
C32_UpdateCase ==
  /\ dlast.op = "apply"
  /\ drule = "dir"
  /\ daction.inner = "update"
  /\ ddir = <<"a">>
  /\ dpre = << <<"a", "b">>, <<"d">> >>
  /\ dlast.matched = dpre

\* The rule has claimed the target for the action, and apply has been
\* called.
Claimed == dlast.op \in {"apply", "abort"}

\* C33, for the operations apply has a case for: for default, update
\* and clean, apply of dir_rule and of fsdir_rule returns a recipe and
\* does not reach its assert (false).
C33_BuiltinOperationsApply ==
  (Claimed /\ daction.inner \in {"default", "update", "clean"}) =>
    /\ dlast.op = "apply"
    /\ ~dlast.asserted
    /\ dlast.recipe \in {"default", "perform_update", "perform_clean"}

\* fsdir_rule has been applied for perform clean and has returned
\* perform_clean.
C33_Witness ==
  /\ dlast.op = "apply"
  /\ drule = "fsdir"
  /\ daction = [meta |-> "perform", outer |-> "none", inner |-> "clean"]
  /\ dlast.recipe = "perform_clean"
  /\ ~dlast.asserted

\* C33 as stated: for every operation of the operation table, the ones
\* the modules register included, apply returns a recipe and does not
\* reach its assert (false).
C33_EveryOperationApplies ==
  Claimed => dlast.op = "apply" /\ ~dlast.asserted

(***************************************************************************)
(* bash: the for_install flag.                                             *)
(***************************************************************************)
\* C34: between two calls of in_rule::apply the for_install flag, once it
\* holds a value, keeps it. install_rule::apply for the update operation
\* on a flag without a value makes it true, and in_rule::perform_update
\* then keeps it true; in_rule::perform_update on a flag without a value
\* makes it false, and install_rule::apply for the update operation then
\* fails with "already updated but not for install" and leaves it false.
C34_ForInstallOnce ==
  [][/\ (blog'.op # "match" /\ for_install # "none")
          => for_install' = for_install
     /\ (blog'.op = "install_apply" /\ blog'.a = "update")
          => /\ for_install = "none" => for_install' = "true"
             /\ for_install = "false"
                  => /\ blog'.fail = "already updated but not for install"
                     /\ bstate' = "failed"
             /\ for_install # "false" => blog'.fail = ""
     /\ blog'.op = "perform_update"
          => /\ for_install = "true" => for_install' = "true"
             /\ for_install = "none" => for_install' = "false"]_vars

\* install_rule::apply has failed on a target updated not for install.
C34_Witness ==
  /\ blog.op = "install_apply"
  /\ blog.a = "update"
  /\ blog.before = "false"
  /\ blog.fail = "already updated but not for install"
  /\ for_install = "false"

\* in_rule::perform_update has run on a target matched for install.
C34_KeptTrue ==
  /\ blog.op = "perform_update"
  /\ blog.before = "true"
  /\ for_install = "true"
  /\ bstate = "updated"

\* C35: when substitute_import has run, called by perform_update, the
\* flag holds a value and the assertion on it holds; the text put for the
\* import begins with source "$(dirname exactly if the flag is true, and
\* is source and the absolute path of the module exactly if it is false.
C35_SubstituteImport ==
  (blog.op = "perform_update" /\ blog.a = "import")
    => /\ for_install # "none"
       /\ blog.asserted # "for_install"
       /\ blog.subst # <<>>
            => /\ for_install = "true"
                    <=> blog.subst[1] = "source \"$(dirname"
               /\ for_install = "false"
                    <=> /\ blog.subst[1] = "source "
                        /\ \E i \in 1..Len(bpts) :
                             blog.subst =
                               <<"source ">> \o bpts[i].comps
                                 \o <<".", bpts[i].ext>>

\* A module two directories below the root is made for install.
C35_Witness ==
  /\ blog.op = "perform_update"
  /\ blog.a = "import"
  /\ bkind = "bash"
  /\ boff = 2
  /\ for_install = "true"
  /\ blog.subst = <<"source \"$(dirname", " \"${BASH_SOURCE[0]}\")/",
                    "../", "../", "x", "m", ".", "bash", "\"">>

\* A script is made not for install.
C35_AbsoluteCase ==
  /\ blog.op = "perform_update"
  /\ bkind = "exe"
  /\ for_install = "false"
  /\ blog.subst = <<"source ", "usr", "bin", "m", ".", "bash">>

(***************************************************************************)
(* bash::in_rule::search by several threads.                               *)
(***************************************************************************)
\* The threads that have returned a target from search.
Resolved == {t \in Threads : spc[t] = "returned" /\ sret[t] # 0}

\* C36: the threads that resolve the module get the same target; the
\* mtime and the path of a target are assigned at most once, by the
\* thread whose insert_locked has created it, mtime first; and a thread
\* that has the target from insert_locked without the lock, or has
\* returned it, finds both assigned, once.
C36_ConcurrentSearch ==
  /\ \A t, u \in Resolved : sret[t] = sret[u]
  /\ \A k \in 1..NumPath :
       /\ Len(stargets[k].mset) <= 1
       /\ Len(stargets[k].pset) <= 1
       /\ stargets[k].pset # <<>> => stargets[k].pset = stargets[k].mset
       /\ \A t \in Threads :
            (stargets[k].mset = <<t>> \/ stargets[k].pset = <<t>>)
              => sowns[t] /\ sfound[t] = k
  /\ \A t \in Threads :
       (t \in Resolved \/ (spc[t] = "inserted" /\ ~sowns[t]))
         => LET pt == stargets[sfound[t]] IN
              /\ pt.present
              /\ Len(pt.mset) = 1 /\ pt.mtime = sfs[sfound[t]]
              /\ Len(pt.pset) = 1 /\ pt.path = sfound[t]

\* Both threads have returned the target of the module, which is in the
\* second directory of PATH; the second thread has created it.
C36_Witness ==
  /\ Resolved = Threads
  /\ sret[1] = 2
  /\ sowns[2] /\ ~sowns[1]
  /\ stargets[2].pset = <<2>>

(***************************************************************************)
(* create_bootstrap_outer: termination.                                    *)
(***************************************************************************)
\* Every project names its parent directory as its amalgamation, or none.
Upward == \A d \in ProjectDirs : otree[d] \in {Null, <<"..">>}

\* p is a proper prefix of d.
ProperPrefix(p, d) == Len(p) < Len(d) /\ SubSeq(d, 1, Len(p)) = p

\* C37: where every amalgamation is the parent directory, each call of
\* create_bootstrap_outer is for a root scope whose out_root is a proper
\* prefix of that of the call before, there are no more calls than the
\* first root has directories above it, and the calls come to an end.
C37_UpwardTerminates ==
  /\ [][(Upward /\ ocur' # ocur) => ProperPrefix(ocur', ocur)]_vars
  /\ [](Upward => odepth <= Len(ostart) + 1)
  /\ Upward ~> (ostate # "running")

\* The calls for o/p/r/, o/p/, o/ and the root directory have returned.
C37_Witness ==
  /\ Upward
  /\ ostart = <<"o", "p", "r">>
  /\ ocur = <<>>
  /\ odepth = 4
  /\ ostate = "returned"

\* C37 as stated, for every value of amalgamation: the calls come to an
\* end.
C37_Terminates == <>(ostate # "running")

\* C37 as stated: each call is for a proper prefix of the root before.
C37_ProperPrefix == [][ocur' # ocur => ProperPrefix(ocur', ocur)]_vars

(***************************************************************************)
(* import: src_root in the temporary scope of the export stub.             *)
(***************************************************************************)
\* The most recent call is an import that has got to the export stub.
Imported == blast.op[1] = "import" /\ blast.err = ""

\* C38: the src_root assigned in the temporary scope is the src_root of
\* the imported root scope where the imported project is built in its
\* source directory, and the empty path where its out_root is not a
\* source root, whatever the src_root that bootstrap has then given the
\* imported root scope.
C38_TempSrcRoot ==
  Imported =>
    LET out_root == blast.temp.out_root IN
      /\ scopes[out_root].src_root # Null
      /\ is_src_root(out_root)
           => /\ blast.temp.src_root = scopes[out_root].src_root
              /\ blast.temp.src_root = out_root
      /\ ~is_src_root(out_root)
           => /\ blast.temp.src_root = <<>>
              /\ scopes[out_root].src_root # out_root

\* The project configured in o/p/ for the source tree s/ is imported.
C38_Witness ==
  /\ Imported
  /\ blast.temp.out_root = <<"o", "p">>
  /\ scopes[<<"o", "p">>].src_root = <<"s", "p">>
  /\ blast.temp.src_root = <<>>

\* A project built in its source directory is imported.
C38_InSource ==
  /\ Imported
  /\ blast.temp.src_root = blast.temp.out_root
  /\ scopes[blast.temp.out_root].src_root = blast.temp.out_root

\* C38 as stated: in both cases the src_root of the temporary scope is
\* that of the imported root scope.
C38_SrcRootPassed ==
  Imported => blast.temp.src_root = scopes[blast.temp.out_root].src_root

(***************************************************************************)
(* concurrent_runner::run: the order of its steps.                         *)
(***************************************************************************)
\* The positions in the cleanups of the files the expected outputs are
\* written to by check_output.
OrigRegistered == {i \in DOMAIN cleanups : cleanups[i].path \in OrigFiles}

\* The positions of the cleanups the command of the last run declares.
DeclaredRegistered ==
  {i \in DOMAIN cleanups :
     \E k \in DOMAIN wlast.c.cleanups : cleanups[i].path = wlast.c.cleanups[k]}

\* C39: run registers the cleanup paths the command declares once the
\* child has been waited for, before it validates the exit status and
\* compares the outputs: they are registered also when the run fails on
\* the exit status or on an output, and before the files check_output
\* registers. The exit status is validated before any output is
\* compared, and stdout is compared before stderr.
C39_RunOrder ==
  (wlast.op = "run" /\ wlast.err # "unable to write")
    => /\ \A k \in DOMAIN wlast.c.cleanups :
            registered(cleanups, wlast.c.cleanups[k]) # {}
       /\ \A i \in DeclaredRegistered, j \in OrigRegistered : i < j
       /\ wlast.err = "exit status" => wlast.checks = <<>>
       /\ wlast.checks \in {<<>>, <<"stdout">>, <<"stdout", "stderr">>}

\* A run has failed on the exit status, and the path the command declares
\* is registered.
C39_Witness ==
  /\ wlast.op = "run"
  /\ wlast.err = "exit status"
  /\ wlast.c.cleanups = <<"w/f">>
  /\ registered(cleanups, "w/f") # {}

\* A run has compared its output, and the path the command declares is
\* registered before the file of the expected output.
C39_BeforeCompare ==
  /\ wlast.op = "run"
  /\ wlast.err = ""
  /\ DeclaredRegistered # {}
  /\ OrigRegistered # {}

\* C39 as stated: the cleanup paths the command declares are registered
\* only after the exit status is validated and the outputs are compared.
C39_CleanupsRegisteredLast ==
  wlast.op = "run"
    => /\ wlast.err # "" => DeclaredRegistered = {}
       /\ \A i \in DeclaredRegistered, j \in OrigRegistered : j < i

(***************************************************************************)
(* config::create_project: build/root.build.                               *)
(***************************************************************************)
\* create_project has written the files.
Created == cerr = ""

\* The lines of root.build before the using directives.
RootHead == 2 + (IF cargs.rpre # "" THEN 2 ELSE 0)

\* C40: root.build consists, in this order, of the header, of rpre and
\* an empty line when rpre is not empty, of one using directive for each
\* entry of rmod, and, when rpos is not empty, of an empty line and of
\* rpre once more; rpos itself is not written.
C40_RootBuild ==
  Created =>
    LET f == cfiles["root.build"]
        n == RootHead + Len(cargs.rmod)
    IN /\ SubSeq(f, 1, 2) = hdr("b")
       /\ cargs.rpre # "" => f[3] = <<cargs.rpre>> /\ f[4] = <<>>
       /\ \A i \in 1..Len(cargs.rmod) :
            f[RootHead + i] = using_line(cargs.rmod[i])
       /\ Len(f) = n + (IF cargs.rpos # "" THEN 2 ELSE 0)
       /\ cargs.rpos # ""
            => f[n + 1] = <<>> /\ f[n + 2] = text_line(cargs.rpre)

\* root.build is written for rpre, two modules and rpos, and ends with
\* rpre.
C40_Witness ==
  /\ Created
  /\ cargs.rpre = "pre" /\ cargs.rpos = "post"
  /\ cargs.rmod = <<<<"?", "c">>, <<"i", ".">>>>
  /\ cfiles["root.build"] =
       hdr("b") \o <<<<"pre">>, <<>>, <<"using", "?", " ", "c", ".config">>,
                     <<"using", "", " ", "i">>, <<>>, <<"pre">>>>

\* C40 as stated: when rpos is not empty, root.build ends with it.
C40_RootPostWritten ==
  (Created /\ cargs.rpos # "")
    => cfiles["root.build"][Len(cfiles["root.build"])] = <<cargs.rpos>>
====
